---- MODULE Spec2Model ----
(***************************************************************************)
(* A model of the bi-parental heap `Beap<T>` (src/src/core.rs, mem.rs,     *)
(* iter.rs).  The beap is the pair (data, height); positions are 0-based   *)
(* as in the source, so flat index i of the Vec is data[i + 1] here.       *)
(* Option<T> is modelled as a sequence: None is << >>, Some(v) is <<v>>.   *)
(***************************************************************************)
EXTENDS Integers, Sequences, FiniteSets, TLC

VARIABLES data, height, ref, op, drain, panicked, merged_from, handle

vars == <<data, height, ref, op, drain, panicked, merged_from, handle>>

(***************************************************************************)
(* Bounds of the model.                                                    *)
(***************************************************************************)
MaxLen == 6
MaxVal == 2

Vals == 0..MaxVal

(* The vectors handed to From / append / append_vec. *)
RECURSIVE VecsOfLen(_)
VecsOfLen(n) ==
    IF n = 0 THEN {<< >>}
    ELSE {Append(v, x) : v \in VecsOfLen(n - 1), x \in Vals}

(* Bulk inputs are enumerated up to order: From and append sort them. *)
IsDesc(s) == \A i \in 1..(Len(s) - 1) : s[i] >= s[i + 1]
Vecs(n) == UNION {{v \in VecsOfLen(k) : IsDesc(v)} : k \in 0..n}

(***************************************************************************)
(* Option and Vec helpers.                                                 *)
(***************************************************************************)
None == << >>
Some(v) == <<v>>

At(d, i) == d[i + 1]

Swap(d, i, j) == [d EXCEPT ![i + 1] = d[j + 1], ![j + 1] = d[i + 1]]

SetAt(d, i, v) == [d EXCEPT ![i + 1] = v]

(* Vec::pop on a non-empty vector: the vector without its last element. *)
Front(d) == SubSeq(d, 1, Len(d) - 1)

Last(d) == d[Len(d)]

(* Vec::first / Beap::peek *)
peek(d) == IF Len(d) = 0 THEN None ELSE Some(d[1])

(* The number of occurrences of v in d. *)
Count(d, v) == Cardinality({i \in 1..Len(d) : d[i] = v})

Elems(d) == {d[i] : i \in 1..Len(d)}

SameBag(d, e) == Len(d) = Len(e) /\ \A v \in Elems(d) \cup Elems(e) : Count(d, v) = Count(e, v)

MaxOf(S) == CHOOSE m \in S : \A x \in S : x <= m
MinOf(S) == CHOOSE m \in S : \A x \in S : m <= x

(* sort_unstable_by(|x, y| y.cmp(x)): descending insertion of each element. *)
RECURSIVE InsertDesc(_, _)
InsertDesc(s, x) ==
    IF s = << >> THEN <<x>>
    ELSE IF x >= Head(s) THEN <<x>> \o s
    ELSE <<Head(s)>> \o InsertDesc(Tail(s), x)

RECURSIVE SortDesc(_)
SortDesc(s) == IF s = << >> THEN << >> ELSE InsertDesc(SortDesc(Tail(s)), Head(s))

RECURSIVE RemoveOne(_, _)
RemoveOne(s, x) ==
    IF s = << >> THEN << >>
    ELSE IF Head(s) = x THEN Tail(s)
    ELSE <<Head(s)>> \o RemoveOne(Tail(s), x)

(* Mutant: the square root is rounded down. *)
RoundSqrt_Floor(m) == CHOOSE r \in 0..(m + 1) : r * r <= m /\ m < (r + 1) * (r + 1)

(* ((m) as f64).sqrt().round() as usize: the nearest integer to sqrt(m),   *)
(* halves rounded away from zero.                                          *)
RoundSqrt(m) ==
    CHOOSE r \in 0..(m + 1) :
        /\ (r = 0 \/ (2 * r - 1) * (2 * r - 1) <= 4 * m)
        /\ 4 * m < (2 * r + 1) * (2 * r + 1)

(***************************************************************************)
(* Beap::span                                                              *)
(***************************************************************************)
(* Mutant: the end is the first index of the next block. *)
span_EndNotDecremented(b) ==
    IF b = 0 THEN None
    ELSE Some(<<(b * (b - 1)) \div 2, (b * (b + 1)) \div 2>>)

span(b) ==
    IF b = 0 THEN None
    ELSE Some(<<(b * (b - 1)) \div 2, ((b * (b + 1)) \div 2) - 1>>)

(* Option::unwrap of a span, and its two components. *)
SpanStart(b) == span(b)[1][1]
SpanEnd(b) == span(b)[1][2]

(***************************************************************************)
(* Beap::siftup                                                            *)
(***************************************************************************)
(* Mutant: the parent with the larger value is compared with. *)
SiftupParent_LargerParent(d, pos, start, block) ==
    LET pos_in_block == pos - start
        prev_start == SpanStart(block - 1)
        prev_end == SpanEnd(block - 1)
        left_parent == prev_start + pos_in_block - 1
        right_parent == prev_start + pos_in_block
    IN  IF pos_in_block > 0
        THEN IF pos_in_block = block - 1 THEN prev_end
             ELSE IF At(d, right_parent) > At(d, left_parent) THEN right_parent
             ELSE left_parent
        ELSE prev_start

(* Mutant: equal parents send the element to the right one. *)
SiftupParent_RightOnTies(d, pos, start, block) ==
    LET pos_in_block == pos - start
        prev_start == SpanStart(block - 1)
        prev_end == SpanEnd(block - 1)
        left_parent == prev_start + pos_in_block - 1
        right_parent == prev_start + pos_in_block
    IN  IF pos_in_block > 0
        THEN IF pos_in_block = block - 1 THEN prev_end
             ELSE IF At(d, right_parent) <= At(d, left_parent) THEN right_parent
             ELSE left_parent
        ELSE prev_start

SiftupParent(d, pos, start, block) ==
    LET pos_in_block == pos - start
        prev_start == SpanStart(block - 1)
        prev_end == SpanEnd(block - 1)
        left_parent == prev_start + pos_in_block - 1
        right_parent == prev_start + pos_in_block
    IN  IF pos_in_block > 0
        THEN IF pos_in_block = block - 1 THEN prev_end
             ELSE IF At(d, right_parent) < At(d, left_parent) THEN right_parent
             ELSE left_parent
        ELSE prev_start

(* Mutant: the loop is left after its first swap. *)
SiftupLoop_OneSwap(d, pos, start, block) ==
    IF block > 1
    THEN LET parent == SiftupParent(d, pos, start, block)
         IN  IF At(d, parent) >= At(d, pos) THEN d ELSE Swap(d, pos, parent)
    ELSE d

RECURSIVE SiftupLoop(_, _, _, _)
SiftupLoop(d, pos, start, block) ==
    IF block > 1
    THEN LET parent == SiftupParent(d, pos, start, block)
         IN  IF At(d, parent) >= At(d, pos) THEN d
             ELSE SiftupLoop(Swap(d, pos, parent), parent, SpanStart(block - 1), block - 1)
    ELSE d

siftup(d, pos, block) ==
    IF span(block) = None THEN d
    ELSE SiftupLoop(d, pos, SpanStart(block), block)

(***************************************************************************)
(* Beap::siftdown                                                          *)
(***************************************************************************)
(* Mutant: the second child is never looked at. *)
SiftdownChild_FirstChildOnly(d, pos, start, block) ==
    SpanStart(block + 1) + (pos - start)

(* Mutant: equal children send the element to the second one. *)
SiftdownChild_SecondOnTies(d, pos, start, block) ==
    LET next_start == SpanStart(block + 1)
        level_pos == pos - start
        child == next_start + level_pos
    IN  IF child + 1 < Len(d) /\ At(d, child + 1) >= At(d, child)
        THEN child + 1
        ELSE child

SiftdownChild(d, pos, start, block) ==
    LET next_start == SpanStart(block + 1)
        level_pos == pos - start
        child == next_start + level_pos
    IN  IF child + 1 < Len(d) /\ At(d, child + 1) > At(d, child)
        THEN child + 1
        ELSE child

RECURSIVE SiftdownLoop(_, _, _, _, _)
SiftdownLoop(d, h, pos, start, block) ==
    IF block < h
    THEN IF SpanStart(block + 1) + (pos - start) >= Len(d) THEN d
         ELSE LET child == SiftdownChild(d, pos, start, block)
              IN  IF At(d, pos) >= At(d, child) THEN d
                  ELSE SiftdownLoop(Swap(d, pos, child), h, child,
                                    SpanStart(block + 1), block + 1)
    ELSE d

siftdown(d, h, pos, block) ==
    IF span(block) = None THEN d
    ELSE SiftdownLoop(d, h, pos, SpanStart(block), block)

(***************************************************************************)
(* The swaps of one siftup / siftdown call, in order: each entry is the    *)
(* position the element was swapped to and the block the loop went on in.  *)
(***************************************************************************)
RECURSIVE SiftupWalk(_, _, _, _)
SiftupWalk(d, pos, start, block) ==
    IF block > 1
    THEN LET parent == SiftupParent(d, pos, start, block)
         IN  IF At(d, parent) >= At(d, pos) THEN << >>
             ELSE <<[pos |-> parent, block |-> block - 1]>>
                  \o SiftupWalk(Swap(d, pos, parent), parent, SpanStart(block - 1), block - 1)
    ELSE << >>

siftup_walk(d, pos, block) ==
    IF span(block) = None THEN << >>
    ELSE SiftupWalk(d, pos, SpanStart(block), block)

RECURSIVE SiftdownWalk(_, _, _, _, _)
SiftdownWalk(d, h, pos, start, block) ==
    IF block < h
    THEN IF SpanStart(block + 1) + (pos - start) >= Len(d) THEN << >>
         ELSE LET child == SiftdownChild(d, pos, start, block)
              IN  IF At(d, pos) >= At(d, child) THEN << >>
                  ELSE <<[pos |-> child, block |-> block + 1]>>
                       \o SiftdownWalk(Swap(d, pos, child), h, child,
                                       SpanStart(block + 1), block + 1)
    ELSE << >>

siftdown_walk(d, h, pos, block) ==
    IF span(block) = None THEN << >>
    ELSE SiftdownWalk(d, h, pos, SpanStart(block), block)

(***************************************************************************)
(* Beap::repair                                                            *)
(***************************************************************************)
(* Mutant: the element is only ever moved down. *)
repair_SiftdownOnly(d, h, pos) ==
    IF pos = 0 THEN siftdown(d, h, pos, 1)
    ELSE siftdown(d, h, pos, RoundSqrt(2 * (pos + 1)))

(* Mutant: the element is only ever moved up. *)
repair_SiftupOnly(d, h, pos) ==
    IF pos = 0 THEN d
    ELSE siftup(d, pos, RoundSqrt(2 * (pos + 1)))

repair(d, h, pos) ==
    IF pos = 0 THEN siftdown(d, h, pos, 1)
    ELSE LET b == RoundSqrt(2 * (pos + 1))
         IN  siftdown(siftup(d, pos, b), h, pos, b)

(***************************************************************************)
(* Beap::index.  A result is None, Some(pos), or Panic when the walk would *)
(* fault (unwrap of None, index out of bounds, usize underflow).           *)
(***************************************************************************)
Panic == <<-1>>

(* One iteration of the loop at (pos, block), pos # left_low: the walk     *)
(* ends ("found", "none", "panic") or moves on to (pos, block).            *)
Walk(kind, pos, block) == [kind |-> kind, pos |-> pos, block |-> block]

(* Mutant: the closing diagonal step is missing, and the search gives up   *)
(* wherever Case 1 and Case 2 do not apply.                                *)
IndexStep_GivesUpEarly(d, h, val, pos, block) ==
    IF pos < 0 \/ pos >= Len(d) \/ span(block) = None THEN Walk("panic", pos, block)
    ELSE IF At(d, pos) = val THEN Walk("found", pos, block)
    ELSE LET start == SpanStart(block)
             block_pos == pos - start
         IN  IF block_pos < 0 THEN Walk("panic", pos, block)
             ELSE IF block > 1 /\ block_pos > 0 /\ val > At(d, pos)
             THEN Walk("move", SpanStart(block - 1) + block_pos - 1, block - 1)
             ELSE IF val < At(d, pos) /\ block < h
             THEN IF SpanStart(block + 1) + block_pos >= Len(d)
                  THEN Walk("move", pos - 1, block)
                  ELSE Walk("move", SpanStart(block + 1) + block_pos, block + 1)
             ELSE Walk("none", pos, block)

(* Mutant: the walk never goes down a column (Case 2 is taken for Case 3's *)
(* diagonal step).                                                         *)
IndexStep_NeverDown(d, h, val, pos, block) ==
    IF pos < 0 \/ pos >= Len(d) \/ span(block) = None THEN Walk("panic", pos, block)
    ELSE IF At(d, pos) = val THEN Walk("found", pos, block)
    ELSE LET start == SpanStart(block)
             block_pos == pos - start
         IN  IF block_pos < 0 THEN Walk("panic", pos, block)
             ELSE IF block > 1 /\ block_pos > 0 /\ val > At(d, pos)
             THEN Walk("move", SpanStart(block - 1) + block_pos - 1, block - 1)
             ELSE IF block_pos > 0
             THEN Walk("move", pos - 1, block)
             ELSE Walk("none", pos, block)

(* Mutant: Case 2 goes down without looking at len. *)
IndexStep_DownUnchecked(d, h, val, pos, block) ==
    IF pos < 0 \/ pos >= Len(d) \/ span(block) = None THEN Walk("panic", pos, block)
    ELSE IF At(d, pos) = val THEN Walk("found", pos, block)
    ELSE LET start == SpanStart(block)
             block_pos == pos - start
         IN  IF block_pos < 0 THEN Walk("panic", pos, block)
             ELSE IF block > 1 /\ block_pos > 0 /\ val > At(d, pos)
             THEN Walk("move", SpanStart(block - 1) + block_pos - 1, block - 1)
             ELSE IF val < At(d, pos) /\ block < h
             THEN Walk("move", SpanStart(block + 1) + block_pos, block + 1)
             ELSE IF block_pos > 0
             THEN Walk("move", pos - 1, block)
             ELSE Walk("none", pos, block)

(* Mutant: Case 1 goes to the parent straight above where there is one. *)
IndexStep_UpNotLeft(d, h, val, pos, block) ==
    IF pos < 0 \/ pos >= Len(d) \/ span(block) = None THEN Walk("panic", pos, block)
    ELSE IF At(d, pos) = val THEN Walk("found", pos, block)
    ELSE LET start == SpanStart(block)
             block_pos == pos - start
         IN  IF block_pos < 0 THEN Walk("panic", pos, block)
             ELSE IF block > 1 /\ block_pos > 0 /\ val > At(d, pos)
             THEN IF block_pos < block - 1
                  THEN Walk("move", SpanStart(block - 1) + block_pos, block - 1)
                  ELSE Walk("move", SpanStart(block - 1) + block_pos - 1, block - 1)
             ELSE IF val < At(d, pos) /\ block < h
             THEN IF SpanStart(block + 1) + block_pos >= Len(d)
                  THEN Walk("move", pos - 1, block)
                  ELSE Walk("move", SpanStart(block + 1) + block_pos, block + 1)
             ELSE IF block_pos > 0
             THEN Walk("move", pos - 1, block)
             ELSE Walk("none", pos, block)

IndexStep(d, h, val, pos, block) ==
    IF pos < 0 \/ pos >= Len(d) \/ span(block) = None THEN Walk("panic", pos, block)
    ELSE IF At(d, pos) = val THEN Walk("found", pos, block)
    ELSE LET start == SpanStart(block)
             block_pos == pos - start
         IN  IF block_pos < 0 THEN Walk("panic", pos, block)
             ELSE IF block > 1 /\ block_pos > 0 /\ val > At(d, pos)
             THEN \* Case 1: go to the left
                  Walk("move", SpanStart(block - 1) + block_pos - 1, block - 1)
             ELSE IF val < At(d, pos) /\ block < h
             THEN IF SpanStart(block + 1) + block_pos >= Len(d)
                  THEN \* Case 3: go left and down (diagonally)
                       Walk("move", pos - 1, block)
                  ELSE \* Case 2: go down
                       Walk("move", SpanStart(block + 1) + block_pos, block + 1)
             ELSE IF block_pos > 0
             THEN \* Case 3: go left and down (diagonally)
                  Walk("move", pos - 1, block)
             ELSE Walk("none", pos, block)

RECURSIVE IndexLoop(_, _, _, _, _, _)
IndexLoop(d, h, val, left_low, pos, block) ==
    IF pos # left_low
    THEN LET w == IndexStep(d, h, val, pos, block)
         IN  IF w.kind = "move" THEN IndexLoop(d, h, val, left_low, w.pos, w.block)
             ELSE IF w.kind = "found" THEN Some(w.pos)
             ELSE IF w.kind = "none" THEN None
             ELSE Panic
    ELSE IF left_low >= Len(d) THEN Panic
    ELSE IF val = At(d, left_low) THEN Some(left_low)
    ELSE None

index(d, h, val) ==
    IF span(h) = None THEN None
    ELSE LET left_low == SpanStart(h)
             partial == SpanEnd(h) >= Len(d)
             block == IF partial THEN h - 1 ELSE h
         IN  IF partial /\ span(block) = None THEN Panic
             ELSE IndexLoop(d, h, val, left_low,
                            IF partial THEN SpanEnd(block) ELSE SpanEnd(h), block)

(* Beap::contains *)
contains(d, h, val) == index(d, h, val) # None

(* The same loop, unrolled at most `fuel` times, as the sequence of the     *)
(* (pos, block) it visits: "move" where the walk went on, and at its end   *)
(* "found", "none" or "panic" ("fuel" where the unrolling stopped short).  *)
RECURSIVE IndexWalk(_, _, _, _, _, _, _)
IndexWalk(d, h, val, left_low, pos, block, fuel) ==
    IF fuel = 0 THEN <<Walk("fuel", pos, block)>>
    ELSE IF pos # left_low
    THEN LET w == IndexStep(d, h, val, pos, block)
         IN  IF w.kind = "move"
             THEN <<Walk("move", pos, block)>>
                  \o IndexWalk(d, h, val, left_low, w.pos, w.block, fuel - 1)
             ELSE <<w>>
    ELSE IF left_low >= Len(d) THEN <<Walk("panic", pos, block)>>
    ELSE IF val = At(d, left_low) THEN <<Walk("found", pos, block)>>
    ELSE <<Walk("none", pos, block)>>

(* The walk of index(val), unrolled far beyond a walk over every element;  *)
(* empty when index returns before its loop.                               *)
index_walk(d, h, val) ==
    IF span(h) = None THEN << >>
    ELSE LET left_low == SpanStart(h)
             partial == SpanEnd(h) >= Len(d)
             block == IF partial THEN h - 1 ELSE h
         IN  IF partial /\ span(block) = None THEN <<Walk("panic", left_low, block)>>
             ELSE IndexWalk(d, h, val, left_low,
                            IF partial THEN SpanEnd(block) ELSE SpanEnd(h), block,
                            2 * Len(d) + 2)

(* What index returns at the end of that walk. *)
WalkResult(w) ==
    IF w = << >> THEN None
    ELSE IF Last(w).kind = "found" THEN Some(Last(w).pos)
    ELSE IF Last(w).kind = "none" THEN None
    ELSE Panic

(***************************************************************************)
(* The scan shared by tail, tail_mut and pop_tail:                         *)
(*     let empty = end + 1 - self.len();                                   *)
(*     ((start - empty)..=(end - empty)).min_by_key(|&i| &self.data[i])    *)
(* usize subtraction wraps in a build without overflow checks and panics   *)
(* in a build with them.  The word is narrowed to 2^30 here; the model's   *)
(* indices stay far below it.                                              *)
(***************************************************************************)
Word == 2 ^ 30

WrappingSub(a, b) == (a - b) % Word

TailEmpty(d, h) == WrappingSub(SpanEnd(h) + 1, Len(d))
(* Mutant: only the last block is scanned. *)
TailLo_LastBlockOnly(d, h) == SpanStart(h)

TailLo(d, h) == WrappingSub(SpanStart(h), TailEmpty(d, h))
TailHi(d, h) == WrappingSub(SpanEnd(h), TailEmpty(d, h))

(* Some subtraction of the scan overflows. *)
TailOverflows(d, h) ==
    \/ SpanEnd(h) + 1 < Len(d)
    \/ SpanStart(h) < TailEmpty(d, h)
    \/ SpanEnd(h) < TailEmpty(d, h)

(* Iterator::min_by_key returns the first of several equal minima. *)
MinByKey(d, lo, hi) ==
    CHOOSE i \in lo..hi :
        /\ \A j \in lo..hi : At(d, i) <= At(d, j)
        /\ \A j \in lo..(i - 1) : At(d, j) # At(d, i)

(* The scan result: Some(idx), or Panic (overflow check, data[i] out of    *)
(* bounds, unwrap of an empty range).                                      *)
TailScan(d, h, overflow_checks) ==
    IF overflow_checks /\ TailOverflows(d, h) THEN Panic
    ELSE IF TailLo(d, h) > TailHi(d, h) \/ TailHi(d, h) >= Len(d) THEN Panic
    ELSE Some(MinByKey(d, TailLo(d, h), TailHi(d, h)))

(* Beap::tail *)
tail(d, h, overflow_checks) ==
    IF span(h) = None THEN None
    ELSE IF h = 1 THEN peek(d)
    ELSE LET idx == TailScan(d, h, overflow_checks)
         IN  IF idx = Panic THEN Panic ELSE Some(At(d, idx[1]))

(* The builds that differ on the state: both only where a subtraction overflows. *)
Builds(d, h) == IF span(h) # None /\ TailOverflows(d, h) THEN BOOLEAN ELSE {FALSE}

(***************************************************************************)
(* The mutating methods as functions of the beap: the resulting data and   *)
(* height, the returned value, and whether the call panicked.              *)
(***************************************************************************)
Result(d, h, r, p) == [data |-> d, height |-> h, ret |-> r, panic |-> p]

(* Mutant: the block is taken to be full one element early. *)
push_GrowsEarly(d, h, item) ==
    LET h1 == IF span(h) # None
              THEN IF Len(d) >= SpanEnd(h) THEN h + 1 ELSE h
              ELSE 1
        d1 == Append(d, item)
    IN  Result(siftup(d1, Len(d1) - 1, h1), h1, None, FALSE)

(* Mutant: a new block is never opened on a beap that has one. *)
push_NeverGrows(d, h, item) ==
    LET h1 == IF span(h) # None THEN h ELSE 1
        d1 == Append(d, item)
    IN  Result(siftup(d1, Len(d1) - 1, h1), h1, None, FALSE)

(* Beap::push *)
push(d, h, item) ==
    LET h1 == IF span(h) # None
              THEN IF Len(d) > SpanEnd(h) THEN h + 1 ELSE h
              ELSE 1
        d1 == Append(d, item)
    IN  Result(siftup(d1, Len(d1) - 1, h1), h1, None, FALSE)

(* Mutant: height is not reset when the last element goes. *)
pop_KeepsHeight(d, h) ==
    IF Len(d) = 0 THEN Result(d, h, None, FALSE)
    ELSE LET item == Last(d)
             d1 == Front(d)
         IN  IF Len(d1) # 0
             THEN IF span(h) # None
                  THEN LET h1 == IF SpanStart(h) = Len(d1) THEN h - 1 ELSE h
                       IN  Result(siftdown(SetAt(d1, 0, item), h1, 0, 1), h1,
                                  Some(At(d1, 0)), FALSE)
                  ELSE Result(d1, h, Some(item), FALSE)
             ELSE Result(d1, h, Some(item), FALSE)

(* Beap::pop *)
pop(d, h) ==
    IF Len(d) = 0 THEN Result(d, h, None, FALSE)
    ELSE LET item == Last(d)
             d1 == Front(d)
         IN  IF Len(d1) # 0
             THEN IF span(h) # None
                  THEN LET h1 == IF SpanStart(h) = Len(d1) THEN h - 1 ELSE h
                       IN  Result(siftdown(SetAt(d1, 0, item), h1, 0, 1), h1,
                                  Some(At(d1, 0)), FALSE)
                  ELSE Result(d1, h, Some(item), FALSE)
             ELSE Result(d1, 0, Some(item), FALSE)

(* Beap::pushpop *)
pushpop(d, h, item) ==
    IF Len(d) # 0 /\ At(d, 0) > item
    THEN Result(siftdown(SetAt(d, 0, item), h, 0, 1), h, Some(At(d, 0)), FALSE)
    ELSE Result(d, h, Some(item), FALSE)

(* Beap::remove_index *)
remove_index(d, h, pos) ==
    IF pos > Len(d) THEN Result(d, h, None, FALSE)
    ELSE IF Len(d) = 0 THEN Result(d, h, None, FALSE)
    ELSE LET item == Last(d)
             d1 == Front(d)
         IN  IF Len(d1) # 0
             THEN IF span(h) # None
                  THEN LET h1 == IF SpanStart(h) = Len(d1) THEN h - 1 ELSE h
                       IN  IF pos # Len(d1)
                           THEN IF pos >= Len(d1)
                                THEN \* self.data[pos] is out of bounds
                                     Result(d1, h1, None, TRUE)
                                ELSE Result(repair(SetAt(d1, pos, item), h1, pos), h1,
                                            Some(At(d1, pos)), FALSE)
                           ELSE Result(d1, h1, Some(item), FALSE)
                  ELSE Result(d1, h, Some(item), FALSE)
             ELSE Result(d1, 0, Some(item), FALSE)

(* A returned bool, as an Option-shaped value like every other result. *)
True == Some(1)
False == Some(0)

(* Beap::remove *)
remove(d, h, val) ==
    LET idx == index(d, h, val)
    IN  IF idx = Panic THEN Result(d, h, None, TRUE)
        ELSE IF idx # None
        THEN LET r == remove_index(d, h, idx[1])
             IN  Result(r.data, r.height, True, r.panic)
        ELSE Result(d, h, False, FALSE)

(* Beap::replace *)
replace(d, h, old, new) ==
    LET idx == index(d, h, old)
    IN  IF idx = Panic THEN Result(d, h, None, TRUE)
        ELSE IF idx # None
        THEN Result(repair(SetAt(d, idx[1], new), h, idx[1]), h, True, FALSE)
        ELSE Result(d, h, False, FALSE)

(* Beap::pop_tail *)
pop_tail(d, h, overflow_checks) ==
    IF span(h) = None THEN Result(d, h, None, FALSE)
    ELSE LET idx == TailScan(d, h, overflow_checks)
         IN  IF idx = Panic THEN Result(d, h, None, TRUE)
             ELSE remove_index(d, h, idx[1])

(* Mutant: the square root is truncated, not rounded. *)
from_TruncatedSqrt(vec) ==
    Result(SortDesc(vec),
           CHOOSE r \in 0..(2 * Len(vec)) : r * r <= 2 * Len(vec) /\ 2 * Len(vec) < (r + 1) * (r + 1),
           None, FALSE)

(* From<Vec<T>> for Beap<T> *)
from(vec) == Result(SortDesc(vec), RoundSqrt(Len(vec) * 2), None, FALSE)

(* Beap::append (other is a beap holding other_data) and Beap::append_vec:  *)
(* both extend self.data, sort it and leave self.height as it was.         *)
append(d, h, other_data) == Result(SortDesc(d \o other_data), h, None, FALSE)

(* Mutant: other.height is not reset. *)
append_other_KeepsHeight(other_data, other_height) == [data |-> << >>, height |-> other_height]

(* What append leaves in `other`: other.height = 0, and Vec::append moves  *)
(* every element out of other.data.                                        *)
append_other(other_data, other_height) == [data |-> << >>, height |-> 0]

append_vec(d, h, other) == Result(SortDesc(d \o other), h, None, FALSE)

(* What append_vec leaves in the vector: Vec::append moves every element. *)
append_vec_other(other) == [data |-> << >>, height |-> 0]

(* Mutant: the height is left as it was. *)
drain_call_KeepsHeight(d, h) == Result(<< >>, h, None, FALSE)

(* Beap::drain: height is reset and the Vec is drained as a whole. *)
drain_call(d, h) == Result(<< >>, 0, None, FALSE)

(* sort_unstable(): ascending insertion of each element. *)
RECURSIVE InsertAsc(_, _)
InsertAsc(s, x) ==
    IF s = << >> THEN <<x>>
    ELSE IF x <= Head(s) THEN <<x>> \o s
    ELSE <<Head(s)>> \o InsertAsc(Tail(s), x)

RECURSIVE SortAsc(_)
SortAsc(s) == IF s = << >> THEN << >> ELSE InsertAsc(SortAsc(Tail(s)), Head(s))

(* Mutant: the comparator of From and append is used. *)
into_sorted_vec_Descending(d) == SortDesc(d)

(* Beap::into_sorted_vec: the returned Vec. *)
into_sorted_vec(d) == SortAsc(d)

(* Beap::get *)
get(d, pos) == IF pos < Len(d) THEN Some(At(d, pos)) ELSE None

(***************************************************************************)
(* The handles.  A handle is a record: which it is, its pos (0 for a       *)
(* PeekMut, which has no such field), its sift flag and whether it is      *)
(* alive; data0 and repairs are history (the data it was taken on, the     *)
(* number of sifts its Drop ran).                                          *)
(***************************************************************************)
(* No handle has been handed out. *)
NoHandle ==
    [kind |-> "none", pos |-> 0, sift |-> FALSE, live |-> FALSE,
     data0 |-> << >>, repairs |-> 0]

NewHandle(kind, pos, d) ==
    [kind |-> kind, pos |-> pos, sift |-> FALSE, live |-> TRUE, data0 |-> d, repairs |-> 0]

(* Beap::peek_mut, Beap::tail_mut (the scan of tail, without its           *)
(* height == 1 case) and Beap::get_mut: None, Panic, or Some(pos) for a    *)
(* handle at pos.                                                          *)
peek_mut(d) == IF Len(d) = 0 THEN None ELSE Some(0)

tail_mut(d, h, overflow_checks) ==
    IF span(h) # None THEN TailScan(d, h, overflow_checks) ELSE None

get_mut(d, pos) == IF pos < Len(d) THEN Some(pos) ELSE None

(* The handle a call hands out, if any. *)
Handed(kind, r, d) ==
    IF r = None \/ r = Panic THEN NoHandle ELSE NewHandle(kind, r[1], d)

(* What a Drop leaves: the data and the number of sifts it ran. *)
Dropped(d, n) == [data |-> d, repairs |-> n]

(* Mutant: the PeekMut sifts whether or not it was written through. *)
PeekMut_drop_AlwaysSifts(d, h, sift) == Dropped(siftdown(d, h, 0, 1), 1)

(* Drop for PeekMut *)
PeekMut_drop(d, h, sift) ==
    IF sift THEN Dropped(siftdown(d, h, 0, 1), 1) ELSE Dropped(d, 0)

(* Drop for TailMut *)
TailMut_drop(d, h, sift, pos) ==
    IF sift THEN Dropped(repair(d, h, pos), 1) ELSE Dropped(d, 0)

(* Drop for PosMut: as TailMut's, at the position get_mut was given. *)
PosMut_drop(d, h, sift, pos) ==
    IF sift THEN Dropped(repair(d, h, pos), 1) ELSE Dropped(d, 0)

(* Beap::remove_from_pos, which TailMut::pop calls: remove_index without   *)
(* its range check, and with span(self.height) unwrapped.                  *)
remove_from_pos(d, h, pos) ==
    IF Len(d) = 0 THEN Result(d, h, None, FALSE)
    ELSE LET item == Last(d)
             d1 == Front(d)
         IN  IF Len(d1) # 0
             THEN IF span(h) = None
                  THEN \* unwrap of None
                       Result(d1, h, None, TRUE)
                  ELSE LET h1 == IF SpanStart(h) = Len(d1) THEN h - 1 ELSE h
                       IN  IF pos # Len(d1)
                           THEN IF pos >= Len(d1)
                                THEN \* self.data[pos] is out of bounds
                                     Result(d1, h1, None, TRUE)
                                ELSE Result(repair(SetAt(d1, pos, item), h1, pos), h1,
                                            Some(At(d1, pos)), FALSE)
                           ELSE Result(d1, h1, Some(item), FALSE)
             ELSE Result(d1, 0, Some(item), FALSE)

(* What a consuming pop leaves: the beap, the unwrapped value (a panic     *)
(* when there is none) and the sift flag its Drop will find.               *)
Consumed(r, sift) ==
    [data |-> r.data, height |-> r.height, ret |-> r.ret,
     panic |-> r.panic \/ r.ret = None, sift |-> sift]

(* Mutant: the flag is left as the writes set it. *)
PeekMut_pop_KeepsSift(d, h, sift) == Consumed(pop(d, h), sift)

(* PeekMut::pop *)
PeekMut_pop(d, h, sift) == Consumed(pop(d, h), FALSE)

(* TailMut::pop *)
TailMut_pop(d, h, sift, pos) == Consumed(remove_from_pos(d, h, pos), FALSE)

(***************************************************************************)
(* The reference max-priority multiset run beside the beap (the role the   *)
(* BinaryHeap and the Vec play in src/src/tests.rs), kept as a descending  *)
(* sequence.                                                               *)
(***************************************************************************)
RefFrom(vec) == SortDesc(vec)
RefPush(m, x) == InsertDesc(m, x)
RefPeek(m) == IF m = << >> THEN None ELSE Some(Head(m))
RefPop(m) == IF m = << >> THEN m ELSE Tail(m)

(***************************************************************************)
(* The two invariants of a Beap (spec section 3).                          *)
(***************************************************************************)
(* The block that holds flat index i. *)
BlockOf(i) == CHOOSE b \in 1..(i + 1) : SpanStart(b) <= i /\ i <= SpanEnd(b)

(* The flat indices of the parents of i that exist. *)
Parents(i) ==
    LET b == BlockOf(i)
        p == i - SpanStart(b)
    IN  IF b = 1 THEN {}
        ELSE {SpanStart(b - 1) + q : q \in {p - 1, p} \cap (0..(b - 2))}

(* Every element is <= each of its parents. *)
Ordered(d) == \A i \in 0..(Len(d) - 1) : \A j \in Parents(i) : At(d, i) <= At(d, j)

(* height is the number of the block that holds the last index. *)
HeightOK(d, h) ==
    IF Len(d) = 0 THEN h = 0
    ELSE h >= 1 /\ SpanStart(h) < Len(d) /\ Len(d) <= SpanEnd(h) + 1

ValidBeap(d, h) == Ordered(d) /\ HeightOK(d, h)

(***************************************************************************)
(* State.  op records the last call: its name, arguments (NoArg where it   *)
(* has none; vec is a vector argument), what it returned, what the         *)
(* reference returned (harness calls only), and the beap it was called on. *)
(* drain is the live Drain                                                 *)
(* iterator, if any.  ref is the reference of the differential harness.    *)
(***************************************************************************)
NoArg == -1

Call(name, x, y, ret, rret) ==
    [name |-> name, x |-> x, y |-> y, ret |-> ret, rret |-> rret,
     pdata |-> data, pheight |-> height, vec |-> << >>]

Start(name) ==
    [name |-> name, x |-> NoArg, y |-> NoArg, ret |-> None, rret |-> None,
     pdata |-> << >>, pheight |-> 0, vec |-> << >>]

(* items is what the Drain has yet to yield; data0 (what it was created    *)
(* over) and yielded (what it has yielded, in order) are history.          *)
NoDrain == [active |-> FALSE, items |-> << >>, data0 |-> << >>, yielded |-> << >>]

(* The second collection of a merge as the merge left it; an empty one     *)
(* before any merge.  A Vec has no height: the field stays 0.              *)
NoOther == [data |-> << >>, height |-> 0]

(* No call runs after a panic, nor while a Drain or a handle borrows the   *)
(* beap; the record of a released handle is kept until the next call.      *)
Idle == ~panicked /\ ~drain.active /\ ~handle.live

Apply(r) ==
    /\ data' = r.data
    /\ height' = r.height
    /\ panicked' = r.panic

(* Beap::from(vec); Beap::new() is the case of the empty vector            *)
(* (src/src/mem.rs:21: empty data, height 0).                              *)
Init ==
    \E vec \in Vecs(MaxLen) :
        /\ data = from(vec).data
        /\ height = from(vec).height
        /\ ref = << >>
        /\ op = Start("from")
        /\ drain = NoDrain
        /\ panicked = FALSE
        /\ merged_from = NoOther
        /\ handle = NoHandle

(* Beap::new() beside an empty reference. *)
InitEmpty ==
    /\ data = << >>
    /\ height = 0
    /\ ref = << >>
    /\ op = Start("new")
    /\ drain = NoDrain
    /\ panicked = FALSE
    /\ merged_from = NoOther
    /\ handle = NoHandle

(* Beap::from(vec) of a vector in any order (FromIterator collects into a  *)
(* Vec and calls it), beside the reference built from the same elements.   *)
InitBulk ==
    \E n \in 0..MaxLen :
        \E vec \in VecsOfLen(n) :
            /\ data = from(vec).data
            /\ height = from(vec).height
            /\ ref = RefFrom(vec)
            /\ op = [Start("from") EXCEPT !.vec = vec]
            /\ drain = NoDrain
            /\ panicked = FALSE
            /\ merged_from = NoOther
            /\ handle = NoHandle

(* Any sequence under the height of its length: what siftup and siftdown   *)
(* can be handed, the beap being out of order while a repair runs.         *)
InitSift ==
    \E n \in 1..MaxLen :
        \E d \in [1..n -> Vals] :
            /\ data = d
            /\ height = BlockOf(n - 1)
            /\ ref = << >>
            /\ op = Start("any")
            /\ drain = NoDrain
            /\ panicked = FALSE
            /\ merged_from = NoOther
            /\ handle = NoHandle

(* Any beap that satisfies both invariants.  Each is a state the program   *)
(* can be in: build it from Beap::from of a constant vector of its minimum *)
(* by writing its elements through get_mut in position order (every write  *)
(* is <= the parents written before and >= the children still to write,    *)
(* so no repair moves it).                                                 *)
InitValid ==
    \E n \in 0..MaxLen :
        \E d \in [1..n -> Vals] :
            /\ Ordered(d)
            /\ data = d
            /\ height = IF n = 0 THEN 0 ELSE BlockOf(n - 1)
            /\ ref = << >>
            /\ op = Start("valid")
            /\ drain = NoDrain
            /\ panicked = FALSE
            /\ merged_from = NoOther
            /\ handle = NoHandle

PushCall(x) ==
    /\ Idle
    /\ Len(data) < MaxLen
    /\ Apply(push(data, height, x))
    /\ handle' = NoHandle
    /\ UNCHANGED <<drain, merged_from>>

Push ==
    \E x \in Vals :
        /\ PushCall(x)
        /\ op' = Call("push", x, NoArg, None, None)
        /\ UNCHANGED ref

PopCall ==
    /\ Idle
    /\ Apply(pop(data, height))
    /\ handle' = NoHandle
    /\ UNCHANGED <<drain, merged_from>>

Pop ==
    /\ PopCall
    /\ op' = Call("pop", NoArg, NoArg, pop(data, height).ret, None)
    /\ UNCHANGED ref

(* The harness of test_pop_with_push_random: the same push and pop on the  *)
(* beap and on the reference.                                              *)
HarnessPush ==
    \E x \in Vals :
        /\ PushCall(x)
        /\ ref' = RefPush(ref, x)
        /\ op' = Call("push", x, NoArg, None, None)

HarnessPop ==
    /\ PopCall
    /\ ref' = RefPop(ref)
    /\ op' = Call("pop", NoArg, NoArg, pop(data, height).ret, RefPeek(ref))

PushPop ==
    /\ Idle
    /\ \E x \in Vals :
        /\ Apply(pushpop(data, height, x))
        /\ op' = Call("pushpop", x, NoArg, pushpop(data, height, x).ret, None)
    /\ handle' = NoHandle
    /\ UNCHANGED <<ref, drain, merged_from>>

Contains ==
    /\ Idle
    /\ \E v \in Vals :
        LET idx == index(data, height, v)
        IN  /\ panicked' = (idx = Panic)
            /\ op' = Call("contains", v, NoArg,
                          IF idx = Panic THEN None
                          ELSE IF contains(data, height, v) THEN True ELSE False,
                          None)
    /\ handle' = NoHandle
    /\ UNCHANGED <<data, height, ref, drain, merged_from>>

Remove ==
    /\ Idle
    /\ \E v \in Vals :
        /\ Apply(remove(data, height, v))
        /\ op' = Call("remove", v, NoArg, remove(data, height, v).ret, None)
    /\ handle' = NoHandle
    /\ UNCHANGED <<ref, drain, merged_from>>

Replace ==
    /\ Idle
    /\ \E old \in Vals, new \in Vals :
        /\ Apply(replace(data, height, old, new))
        /\ op' = Call("replace", old, new, replace(data, height, old, new).ret, None)
    /\ handle' = NoHandle
    /\ UNCHANGED <<ref, drain, merged_from>>

TailOp ==
    /\ Idle
    /\ \E overflow_checks \in Builds(data, height) :
        LET r == tail(data, height, overflow_checks)
        IN  /\ panicked' = (r = Panic)
            /\ op' = Call("tail", NoArg, NoArg, IF r = Panic THEN None ELSE r, None)
    /\ handle' = NoHandle
    /\ UNCHANGED <<data, height, ref, drain, merged_from>>

PopTail ==
    /\ Idle
    /\ \E overflow_checks \in Builds(data, height) :
        /\ Apply(pop_tail(data, height, overflow_checks))
        /\ op' = Call("pop_tail", NoArg, NoArg,
                      pop_tail(data, height, overflow_checks).ret, None)
    /\ handle' = NoHandle
    /\ UNCHANGED <<ref, drain, merged_from>>

RemoveIndex ==
    /\ Idle
    /\ \E pos \in 0..(Len(data) + 1) :
        /\ Apply(remove_index(data, height, pos))
        /\ op' = Call("remove_index", pos, NoArg, remove_index(data, height, pos).ret, None)
    /\ handle' = NoHandle
    /\ UNCHANGED <<ref, drain, merged_from>>

(* Beap::index, called as test_index calls it. *)
IndexCall ==
    /\ Idle
    /\ \E v \in Vals :
        LET r == WalkResult(index_walk(data, height, v))
        IN  /\ panicked' = (r = Panic)
            /\ op' = Call("index", v, NoArg, IF r = Panic THEN None ELSE r, None)
    /\ handle' = NoHandle
    /\ UNCHANGED <<data, height, ref, drain, merged_from>>

(* siftup(pos, block) and siftdown(pos, block) on the element at pos of    *)
(* block `block`, as push, pop and repair call them: one call on each      *)
(* sequence drawn.                                                         *)
SiftupCall ==
    /\ Idle
    /\ op.name = "any"
    /\ \E pos \in 0..(Len(data) - 1) :
        /\ data' = siftup(data, pos, BlockOf(pos))
        /\ op' = Call("siftup", pos, BlockOf(pos), None, None)
    /\ handle' = NoHandle
    /\ UNCHANGED <<height, ref, drain, panicked, merged_from>>

SiftdownCall ==
    /\ Idle
    /\ op.name = "any"
    /\ \E pos \in 0..(Len(data) - 1) :
        /\ data' = siftdown(data, height, pos, BlockOf(pos))
        /\ op' = Call("siftdown", pos, BlockOf(pos), None, None)
    /\ handle' = NoHandle
    /\ UNCHANGED <<height, ref, drain, panicked, merged_from>>

(* remove_index with a position inside the beap. *)
RemoveIndexInRange ==
    /\ Idle
    /\ \E pos \in 0..(Len(data) - 1) :
        /\ Apply(remove_index(data, height, pos))
        /\ op' = Call("remove_index", pos, NoArg, remove_index(data, height, pos).ret, None)
    /\ handle' = NoHandle
    /\ UNCHANGED <<ref, drain, merged_from>>

AppendBeap ==
    /\ Idle
    /\ \E other \in Vecs(MaxLen - Len(data)) :
        /\ Apply(append(data, height, from(other).data))
        /\ merged_from' = append_other(from(other).data, from(other).height)
        /\ op' = [Call("append", Len(other), NoArg, None, None) EXCEPT !.vec = from(other).data]
    /\ handle' = NoHandle
    /\ UNCHANGED <<ref, drain>>

AppendVec ==
    /\ Idle
    /\ \E other \in Vecs(MaxLen - Len(data)) :
        /\ Apply(append_vec(data, height, other))
        /\ merged_from' = append_vec_other(other)
        /\ op' = [Call("append_vec", Len(other), NoArg, None, None) EXCEPT !.vec = other]
    /\ handle' = NoHandle
    /\ UNCHANGED <<ref, drain>>

(* Beap::clear: the Drain is dropped at once (src/src/mem.rs:256). *)
Clear ==
    /\ Idle
    /\ Apply(drain_call(data, height))
    /\ op' = Call("clear", NoArg, NoArg, None, None)
    /\ handle' = NoHandle
    /\ UNCHANGED <<ref, drain, merged_from>>

Drain ==
    /\ Idle
    /\ Apply(drain_call(data, height))
    /\ drain' = [active |-> TRUE, items |-> data, data0 |-> data, yielded |-> << >>]
    /\ op' = Call("drain", NoArg, NoArg, None, None)
    /\ handle' = NoHandle
    /\ UNCHANGED <<ref, merged_from>>

(* Drain::next *)
DrainNext ==
    /\ ~panicked
    /\ drain.active
    /\ drain' = IF drain.items = << >> THEN drain
                 ELSE [drain EXCEPT !.items = Tail(drain.items),
                                    !.yielded = Append(@, Head(drain.items))]
    /\ op' = Call("drain_next", NoArg, NoArg,
                  IF drain.items = << >> THEN None ELSE Some(Head(drain.items)), None)
    /\ UNCHANGED <<data, height, ref, panicked, merged_from, handle>>

(* Drain::next_back *)
DrainNextBack ==
    /\ ~panicked
    /\ drain.active
    /\ drain' = IF drain.items = << >> THEN drain
                 ELSE [drain EXCEPT !.items = Front(drain.items),
                                    !.yielded = Append(@, Last(drain.items))]
    /\ op' = Call("drain_next_back", NoArg, NoArg,
                  IF drain.items = << >> THEN None ELSE Some(Last(drain.items)), None)
    /\ UNCHANGED <<data, height, ref, panicked, merged_from, handle>>

(* The Drain goes out of scope; op.x is the number of elements it had      *)
(* yielded.                                                                *)
DrainDrop ==
    /\ ~panicked
    /\ drain.active
    /\ drain' = NoDrain
    /\ op' = Call("drain_drop", Len(drain.yielded), NoArg, None, None)
    /\ UNCHANGED <<data, height, ref, panicked, merged_from, handle>>

(* Beap::peek_mut: the handle, if any, borrows the beap from here on. *)
PeekMutCall ==
    /\ Idle
    /\ handle' = Handed("PeekMut", peek_mut(data), data)
    /\ op' = Call("peek_mut", NoArg, NoArg, peek(data), None)
    /\ UNCHANGED <<data, height, ref, drain, panicked, merged_from>>

TailMutCall ==
    /\ Idle
    /\ \E overflow_checks \in Builds(data, height) :
        LET r == tail_mut(data, height, overflow_checks)
        IN  /\ panicked' = (r = Panic)
            /\ handle' = Handed("TailMut", r, data)
            /\ op' = Call("tail_mut", NoArg, NoArg,
                          IF r = None \/ r = Panic THEN None ELSE Some(At(data, r[1])),
                          None)
    /\ UNCHANGED <<data, height, ref, drain, merged_from>>

GetMutCall ==
    /\ Idle
    /\ \E pos \in 0..(Len(data) + 1) :
        /\ handle' = Handed("PosMut", get_mut(data, pos), data)
        /\ op' = Call("get_mut", pos, NoArg, get(data, pos), None)
    /\ UNCHANGED <<data, height, ref, drain, panicked, merged_from>>

(* Deref: a read through the handle. *)
HandleDeref ==
    /\ ~panicked
    /\ handle.live
    /\ op' = Call("deref", NoArg, NoArg, Some(At(data, handle.pos)), None)
    /\ UNCHANGED <<data, height, ref, drain, panicked, merged_from, handle>>

(* DerefMut and the assignment through it: `*handle = v`. *)
HandleDerefMut ==
    /\ ~panicked
    /\ handle.live
    /\ \E v \in Vals :
        /\ handle' = [handle EXCEPT !.sift = TRUE]
        /\ data' = SetAt(data, handle.pos, v)
        /\ op' = Call("deref_mut", v, NoArg, None, None)
    /\ UNCHANGED <<height, ref, drain, panicked, merged_from>>

(* The handle goes out of scope. *)
DropCall(kind, r) ==
    /\ ~panicked
    /\ handle.live
    /\ handle.kind = kind
    /\ data' = r.data
    /\ handle' = [handle EXCEPT !.live = FALSE, !.repairs = @ + r.repairs]
    /\ op' = Call("drop", NoArg, NoArg, None, None)
    /\ UNCHANGED <<height, ref, drain, panicked, merged_from>>

DropPeekMut == DropCall("PeekMut", PeekMut_drop(data, height, handle.sift))

DropTailMut == DropCall("TailMut", TailMut_drop(data, height, handle.sift, handle.pos))

DropPosMut == DropCall("PosMut", PosMut_drop(data, height, handle.sift, handle.pos))

(* A consuming pop: the handle is moved into the call, which pops and      *)
(* clears the flag; the handle's Drop then runs as the call returns (with  *)
(* the flag as it was, if the call unwinds).                               *)
ConsumeCall(kind, name, r, dropped) ==
    /\ ~panicked
    /\ handle.live
    /\ handle.kind = kind
    /\ data' = dropped.data
    /\ height' = r.height
    /\ panicked' = r.panic
    /\ handle' = [handle EXCEPT !.live = FALSE, !.sift = r.sift,
                                !.repairs = @ + dropped.repairs]
    /\ op' = Call(name, NoArg, NoArg, r.ret, None)
    /\ UNCHANGED <<ref, drain, merged_from>>

PeekMutPop ==
    LET r == PeekMut_pop(data, height, handle.sift)
    IN  ConsumeCall("PeekMut", "PeekMut::pop", r,
                    PeekMut_drop(r.data, r.height, IF r.panic THEN handle.sift ELSE r.sift))

TailMutPop ==
    LET r == TailMut_pop(data, height, handle.sift, handle.pos)
    IN  ConsumeCall("TailMut", "TailMut::pop", r,
                    TailMut_drop(r.data, r.height, IF r.panic THEN handle.sift ELSE r.sift,
                                 handle.pos))

(* beap.clone().into_sorted_vec(): the beap itself is left as it is. *)
IntoSortedVec ==
    /\ Idle
    /\ op' = Call("into_sorted_vec", NoArg, NoArg, into_sorted_vec(data), None)
    /\ handle' = NoHandle
    /\ UNCHANGED <<data, height, ref, drain, panicked, merged_from>>

(* Every public operation, from any bulk-built (or new) beap. *)
Next ==
    \/ Push
    \/ Pop
    \/ PushPop
    \/ Contains
    \/ Remove
    \/ Replace
    \/ TailOp
    \/ PopTail
    \/ RemoveIndex
    \/ AppendBeap
    \/ AppendVec
    \/ Clear
    \/ Drain
    \/ DrainNext
    \/ DrainDrop

Spec == Init /\ [][Next]_vars

(* The operations on one beap that take no second collection, from any     *)
(* beap that satisfies the invariants.                                     *)
NextValid ==
    \/ Push
    \/ Pop
    \/ PushPop
    \/ Contains
    \/ Remove
    \/ Replace
    \/ TailOp
    \/ PopTail

SpecValid == InitValid /\ [][NextValid]_vars

(* The differential harness: push and pop on a new beap and a reference. *)
NextHarness ==
    \/ HarnessPush
    \/ HarnessPop

SpecHarness == InitEmpty /\ [][NextHarness]_vars

(* The operations C1 lists: push, pop, replace, remove and the two merges. *)
NextMerge ==
    \/ Push
    \/ Pop
    \/ Remove
    \/ Replace
    \/ AppendBeap
    \/ AppendVec

SpecMerge == Init /\ [][NextMerge]_vars

(* Building a beap: in bulk from a vector in any order, then by pushes in   *)
(* any order, with the sorted vector taken at any point.                   *)
NextBuild ==
    \/ HarnessPush
    \/ IntoSortedVec

SpecBuild == InitBulk /\ [][NextBuild]_vars

(* The three handles, from any beap that satisfies the invariants. *)
NextHandle ==
    \/ PeekMutCall
    \/ TailMutCall
    \/ GetMutCall
    \/ HandleDeref
    \/ HandleDerefMut
    \/ DropPeekMut
    \/ DropTailMut
    \/ DropPosMut

SpecHandle == InitValid /\ [][NextHandle]_vars

(* The handles on a bulk-built (or new) beap that append_vec has added to. *)
NextStale ==
    \/ AppendVec
    \/ NextHandle

SpecStale == Init /\ [][NextStale]_vars

(* The two merges alone, from any bulk-built (or new) beap. *)
NextAppend ==
    \/ AppendBeap
    \/ AppendVec

SpecAppend == Init /\ [][NextAppend]_vars

(* Every operation on one beap that changes it, the merges excepted, with  *)
(* remove_index kept inside the beap and the handles written through,      *)
(* released or consumed, from a bulk-built (or new) beap.                   *)
NextNoAppend ==
    \/ Push
    \/ Pop
    \/ PopTail
    \/ PushPop
    \/ Remove
    \/ RemoveIndexInRange
    \/ Replace
    \/ PeekMutCall
    \/ TailMutCall
    \/ GetMutCall
    \/ HandleDerefMut
    \/ DropPeekMut
    \/ DropTailMut
    \/ DropPosMut
    \/ PeekMutPop
    \/ TailMutPop

SpecNoAppend == Init /\ [][NextNoAppend]_vars

(* Searches of any beap that satisfies the invariants, between pushes and  *)
(* pops.                                                                   *)
NextIndex ==
    \/ IndexCall
    \/ Push
    \/ Pop

SpecIndex == InitValid /\ [][NextIndex]_vars

(* The two sifts alone, at any position of any sequence. *)
NextSift ==
    \/ SiftupCall
    \/ SiftdownCall

SpecSift == InitSift /\ [][NextSift]_vars

(* Draining and clearing a bulk-built (or new) beap, and pushing again. *)
NextDrain ==
    \/ Push
    \/ Clear
    \/ Drain
    \/ DrainNext
    \/ DrainNextBack
    \/ DrainDrop

SpecDrain == Init /\ [][NextDrain]_vars

(* PeekMut and TailMut, written through or not, then consumed by their     *)
(* pop, from any beap that satisfies the invariants.                       *)
NextConsume ==
    \/ PeekMutCall
    \/ TailMutCall
    \/ HandleDerefMut
    \/ PeekMutPop
    \/ TailMutPop

SpecConsume == InitValid /\ [][NextConsume]_vars

(* The same on a bulk-built (or new) beap that append_vec has added to. *)
NextStaleConsume ==
    \/ AppendVec
    \/ NextConsume

SpecStaleConsume == Init /\ [][NextStaleConsume]_vars

(***************************************************************************)
(* C1: after every completed push, pop, replace, remove and merge, from an *)
(* empty or bulk-built beap, every element of data is <= each of its       *)
(* existing parents.                                                       *)
(***************************************************************************)
C1_OrderingInvariant == ~panicked => Ordered(data)

(***************************************************************************)
(* C2: in every state reachable through the public operations, height is 0 *)
(* iff data is empty, and otherwise block `height` holds the last index:   *)
(* span(height-1).end < len(data) <= span(height).end (+ 1, the length of  *)
(* a beap whose last block is full).                                       *)
(***************************************************************************)
C2_HeightInvariant == ~panicked => HeightOK(data, height)

(***************************************************************************)
(* C3: a beap and a reference max-priority multiset under the same pushes  *)
(* and pops, both starting empty: every pop returns the same value in      *)
(* both, each push grows len by exactly 1, and after every step len() and  *)
(* peek() agree, peek being the maximum of what was pushed and not popped. *)
(* Pushing 1, 2, 3, 0, 5, 4 onto an empty beap shows peeks 1, 2, 3, 3, 5,  *)
(* 5 (test_push).                                                          *)
(***************************************************************************)
RECURSIVE PeeksOfPushes(_, _, _)
PeeksOfPushes(d, h, items) ==
    IF items = << >> THEN << >>
    ELSE peek(push(d, h, Head(items)).data)
         \o PeeksOfPushes(push(d, h, Head(items)).data, push(d, h, Head(items)).height,
                          Tail(items))

C3_PushPopRefinesReference ==
    /\ PeeksOfPushes(<< >>, 0, <<1, 2, 3, 0, 5, 4>>) = <<1, 2, 3, 3, 5, 5>>
    /\ Len(data) = Len(ref)
    /\ peek(data) = (IF ref = << >> THEN None ELSE Some(MaxOf(Elems(ref))))
    /\ op.name = "pop" => op.ret = op.rret
    /\ op.name = "push" => Len(data) = Len(op.pdata) + 1

C3_Witness ==
    /\ op.name = "pop"
    /\ op.ret = Some(1)
    /\ Len(data) = 4
    /\ Elems(ref) = {0, 1}

(***************************************************************************)
(* C4: pop() on a non-empty beap that satisfies the invariants returns a   *)
(* maximum of the stored multiset and removes exactly one occurrence of it *)
(* (len drops by 1, everything else is kept) and leaves a beap that        *)
(* satisfies the invariants, so popping until empty yields the values in   *)
(* non-increasing order; pop() on the empty beap returns None.             *)
(***************************************************************************)
C4_PopReturnsMax ==
    (op.name = "pop" /\ ValidBeap(op.pdata, op.pheight)) =>
        IF op.pdata = << >>
        THEN op.ret = None /\ data = << >> /\ height = 0
        ELSE /\ op.ret = Some(MaxOf(Elems(op.pdata)))
             /\ Len(data) = Len(op.pdata) - 1
             /\ SameBag(data, RemoveOne(op.pdata, MaxOf(Elems(op.pdata))))
             /\ ValidBeap(data, height)

C4_Witness ==
    /\ op.name = "pop"
    /\ ValidBeap(op.pdata, op.pheight)
    /\ Len(op.pdata) = MaxLen
    /\ op.ret = Some(2)
    /\ Count(op.pdata, 2) = 2
    /\ data # Tail(op.pdata)

(***************************************************************************)
(* C5: on every beap that satisfies the ordering and height invariants,    *)
(* contains(v) is true iff v occurs in the stored multiset.                *)
(***************************************************************************)
C5_ContainsIffMember ==
    (op.name = "contains" /\ ValidBeap(data, height)) =>
        /\ ~panicked
        /\ op.ret = (IF op.x \in Elems(data) THEN True ELSE False)

C5_Witness ==
    /\ op.name = "contains"
    /\ ValidBeap(data, height)
    /\ Len(data) = 5
    /\ op.ret = True
    /\ Count(data, op.x) = 1
    /\ At(data, 2) = op.x

C5_WitnessAbsent ==
    /\ op.name = "contains"
    /\ ValidBeap(data, height)
    /\ Len(data) = 5
    /\ op.ret = False
    /\ Elems(data) = {0, 2}

(***************************************************************************)
(* C6: remove(v) returns true iff v is in the beap; when it returns true   *)
(* the multiset loses exactly one occurrence of v and nothing else; when   *)
(* it returns false, data and height are unchanged.                        *)
(***************************************************************************)
RemoveContract(pd, ph, v, ret, d, h) ==
    /\ (ret = True) <=> (v \in Elems(pd))
    /\ ret \in {True, False}
    /\ ret = True => SameBag(d, RemoveOne(pd, v))
    /\ ret = False => d = pd /\ h = ph

C6_RemoveExactlyOne ==
    op.name = "remove" =>
        ~panicked /\ RemoveContract(op.pdata, op.pheight, op.x, op.ret, data, height)

(* C6 restricted to calls on a beap that satisfies the invariants. *)
C6_RemoveOnValidBeap ==
    (op.name = "remove" /\ ValidBeap(op.pdata, op.pheight)) =>
        /\ ~panicked
        /\ RemoveContract(op.pdata, op.pheight, op.x, op.ret, data, height)
        /\ ValidBeap(data, height)

(***************************************************************************)
(* C7: replace(old, new) returns true iff old is in the beap; when it      *)
(* returns true exactly one occurrence of old has become new (len is       *)
(* unchanged, everything else kept) and the ordering invariant holds; when *)
(* it returns false, data and height are unchanged.                        *)
(***************************************************************************)
ReplaceContract(pd, ph, old, new, ret, d, h) ==
    /\ (ret = True) <=> (old \in Elems(pd))
    /\ ret \in {True, False}
    /\ ret = True => /\ SameBag(d, Append(RemoveOne(pd, old), new))
                     /\ Ordered(d)
                     /\ h = ph
    /\ ret = False => d = pd /\ h = ph

C7_ReplaceExactlyOne ==
    op.name = "replace" =>
        ~panicked /\ ReplaceContract(op.pdata, op.pheight, op.x, op.y, op.ret, data, height)

(* C7 restricted to calls on a beap that satisfies the invariants. *)
C7_ReplaceOnValidBeap ==
    (op.name = "replace" /\ ValidBeap(op.pdata, op.pheight)) =>
        ~panicked /\ ReplaceContract(op.pdata, op.pheight, op.x, op.y, op.ret, data, height)

(***************************************************************************)
(* C8: on every beap that satisfies the ordering and height invariants,    *)
(* tail() is None iff the beap is empty and otherwise a minimum of the     *)
(* stored multiset; the minimum lies within the last `height` flat         *)
(* positions, which are the positions tail scans, also when the last block *)
(* is partially filled.                                                    *)
(***************************************************************************)
C8_TailIsMinimum ==
    ValidBeap(data, height) =>
        /\ op.name = "tail" =>
              /\ ~panicked
              /\ op.ret = (IF data = << >> THEN None ELSE Some(MinOf(Elems(data))))
        /\ height >= 1 =>
              /\ ~TailOverflows(data, height)
              /\ TailLo(data, height) = Len(data) - height
              /\ TailHi(data, height) = Len(data) - 1
              /\ \E i \in TailLo(data, height)..TailHi(data, height) :
                    At(data, i) = MinOf(Elems(data))

(* The last block is partially filled and the minimum is not in it. *)
C8_Witness ==
    /\ op.name = "tail"
    /\ ValidBeap(data, height)
    /\ height = 3
    /\ Len(data) = 4
    /\ op.ret = Some(0)
    /\ At(data, 3) # 0

(***************************************************************************)
(* C9: pop_tail() on a non-empty beap removes and returns a minimum        *)
(* element, exactly one occurrence; under any interleaving of pop() and    *)
(* pop_tail() each pop returns the current maximum and each pop_tail the   *)
(* current minimum of the remaining multiset.                              *)
(***************************************************************************)
PopTailContract(pd, ret, d) ==
    IF pd = << >> THEN ret = None /\ d = << >>
    ELSE /\ ret = Some(MinOf(Elems(pd)))
         /\ SameBag(d, RemoveOne(pd, MinOf(Elems(pd))))

PopContract(pd, ret, d) ==
    IF pd = << >> THEN ret = None /\ d = << >>
    ELSE /\ ret = Some(MaxOf(Elems(pd)))
         /\ SameBag(d, RemoveOne(pd, MaxOf(Elems(pd))))

C9_PopTailReturnsMin ==
    ~panicked =>
        /\ op.name = "pop_tail" => PopTailContract(op.pdata, op.ret, data)
        /\ op.name = "pop" => PopContract(op.pdata, op.ret, data)

(* C9 restricted to calls on a beap that satisfies the invariants. *)
C9_PopTailOnValidBeap ==
    ValidBeap(op.pdata, op.pheight) =>
        /\ op.name = "pop_tail" =>
              /\ ~panicked
              /\ PopTailContract(op.pdata, op.ret, data)
              /\ ValidBeap(data, height)
        /\ op.name = "pop" => ~panicked /\ PopContract(op.pdata, op.ret, data)

(***************************************************************************)
(* C10: for every beap state and every x, pushpop(x) returns what push(x)  *)
(* followed by pop() returns on an independent clone, and afterwards the   *)
(* two beaps hold the same multiset, with equal len() and peek().          *)
(***************************************************************************)
PushThenPop(d, h, x) == pop(push(d, h, x).data, push(d, h, x).height)

PushPopContract(pd, ph, x, ret, d) ==
    /\ ret = PushThenPop(pd, ph, x).ret
    /\ SameBag(d, PushThenPop(pd, ph, x).data)
    /\ Len(d) = Len(PushThenPop(pd, ph, x).data)
    /\ peek(d) = peek(PushThenPop(pd, ph, x).data)

C10_PushPopEquivalence ==
    op.name = "pushpop" => PushPopContract(op.pdata, op.pheight, op.x, op.ret, data)

(* C10 restricted to calls on a beap that satisfies the invariants. *)
C10_PushPopOnValidBeap ==
    (op.name = "pushpop" /\ ValidBeap(op.pdata, op.pheight)) =>
        PushPopContract(op.pdata, op.pheight, op.x, op.ret, data)

(***************************************************************************)
(* C11: a.append(&mut b) moves every element: afterwards a holds exactly   *)
(* the multiset union of both (len is the sum, peek() is the maximum of    *)
(* the union, into_sorted_vec is the ascending union) and b is empty (len  *)
(* 0, height 0, tail() == None); append_vec(&mut v) does the same for a    *)
(* vector and leaves v empty.  Merging the beaps built from [-10,1,2,3,3]  *)
(* and [-20,5,43] gives [-20,-10,1,2,3,3,5,43] once sorted.                *)
(***************************************************************************)
IsAsc(s) == \A i \in 1..(Len(s) - 1) : s[i] <= s[i + 1]

AscendingOf(r, bag) == IsAsc(r) /\ SameBag(r, bag)

C11_AppendMovesAll ==
    /\ into_sorted_vec(append(from(<<-10, 1, 2, 3, 3>>).data, from(<<-10, 1, 2, 3, 3>>).height,
                               from(<<-20, 5, 43>>).data).data)
          = <<-20, -10, 1, 2, 3, 3, 5, 43>>
    /\ op.name \in {"append", "append_vec"} =>
          /\ ~panicked
          /\ Len(data) = Len(op.pdata) + Len(op.vec)
          /\ SameBag(data, op.pdata \o op.vec)
          /\ peek(data) = (IF op.pdata \o op.vec = << >> THEN None
                           ELSE Some(MaxOf(Elems(op.pdata \o op.vec))))
          /\ AscendingOf(into_sorted_vec(data), op.pdata \o op.vec)
          /\ Len(merged_from.data) = 0
    /\ op.name = "append" =>
          /\ merged_from.height = 0
          /\ \A overflow_checks \in BOOLEAN :
                tail(merged_from.data, merged_from.height, overflow_checks) = None

(* Two beaps of three elements, the maximum coming from b. *)
C11_Witness ==
    /\ op.name = "append"
    /\ op.pdata = <<1, 1, 0>>
    /\ op.vec = <<2, 0, 0>>
    /\ data = <<2, 1, 1, 0, 0, 0>>
    /\ merged_from = NoOther

(***************************************************************************)
(* C12: for any finite multiset and any order in which it is inserted      *)
(* (bulk From, or push in any permutation), into_sorted_vec returns        *)
(* exactly that multiset in ascending order.  ref holds the multiset       *)
(* inserted so far.  Beap::from([3,5,9,7]).into_sorted_vec() is [3,5,7,9]. *)
(***************************************************************************)
C12_IntoSortedVecAscending ==
    /\ into_sorted_vec(from(<<3, 5, 9, 7>>).data) = <<3, 5, 7, 9>>
    /\ op.name = "into_sorted_vec" => AscendingOf(op.ret, ref)

(* The beap was filled by pushes and its data is not sorted. *)
C12_Witness ==
    /\ op.name = "into_sorted_vec"
    /\ op.ret = <<0, 1, 1, 2, 2>>
    /\ ~IsDesc(data)
    /\ Len(ref) = 5

(***************************************************************************)
(* C13: Beap::from(vec) (and from_iter) yields a beap whose backing        *)
(* sequence is vec sorted in descending order; every descending-sorted     *)
(* sequence satisfies the ordering invariant, and the height stored for    *)
(* length n satisfies the height invariant (0 for the empty vector).       *)
(***************************************************************************)
C13_FromSortsDescending ==
    op.name = "from" =>
        /\ IsDesc(data)
        /\ SameBag(data, op.vec)
        /\ Ordered(data)
        /\ HeightOK(data, height)
        /\ op.vec = << >> => height = 0

C13_Witness ==
    /\ op.name = "from"
    /\ op.vec = <<0, 2, 1, 2>>
    /\ data = <<2, 2, 1, 0>>
    /\ height = 3

(***************************************************************************)
(* C14: on an empty beap, peek, tail, pop, pop_tail, peek_mut, tail_mut,   *)
(* get(p), get_mut(p), index(v) and remove_index(p) return None and        *)
(* contains(v), remove(v), replace(o, n) return false, for all arguments,  *)
(* without faulting and leaving data empty and height 0; this holds again  *)
(* after the beap has been emptied by pops or pop_tails.                   *)
(***************************************************************************)
StillEmpty(r, ret) == r = Result(<< >>, 0, ret, FALSE)

C14_EmptyReturnsAbsent ==
    /\ (Idle /\ data = << >>) =>
          /\ height = 0
          /\ peek(data) = None
          /\ peek_mut(data) = None
          /\ StillEmpty(pop(data, height), None)
          /\ \A overflow_checks \in BOOLEAN :
                /\ tail(data, height, overflow_checks) = None
                /\ tail_mut(data, height, overflow_checks) = None
                /\ StillEmpty(pop_tail(data, height, overflow_checks), None)
          /\ \A p \in 0..(MaxLen + 1) :
                /\ get(data, p) = None
                /\ get_mut(data, p) = None
                /\ StillEmpty(remove_index(data, height, p), None)
          /\ \A v \in Vals :
                /\ index(data, height, v) = None
                /\ ~contains(data, height, v)
                /\ StillEmpty(remove(data, height, v), False)
                /\ \A new \in Vals : StillEmpty(replace(data, height, v, new), False)
    /\ (op.pdata = << >>
          /\ op.name \in {"pop", "pop_tail", "tail", "contains", "remove", "replace"}) =>
          /\ ~panicked
          /\ data = << >>
          /\ height = 0
          /\ op.ret \in {None, False}

(* pop_tail again on a beap that a pop_tail has emptied. *)
C14_Witness ==
    /\ op.name = "pop_tail"
    /\ op.pdata = << >>
    /\ op.pheight = 0
    /\ op.ret = None
    /\ data = << >>

(***************************************************************************)
(* C15: remove_index(pos) returns None and leaves data and height          *)
(* unchanged whenever pos is greater than the maximum valid index of the   *)
(* beap (every pos >= len, including pos == len); it never faults.         *)
(***************************************************************************)
C15_RemoveIndexOutOfRange ==
    (op.name = "remove_index" /\ op.x >= Len(op.pdata)) =>
        /\ ~panicked
        /\ op.ret = None
        /\ data = op.pdata
        /\ height = op.pheight

(* C15 for the positions the guard `pos > len` does reject. *)
C15_RemoveIndexBeyondLen ==
    (op.name = "remove_index" /\ op.x > Len(op.pdata)) =>
        /\ ~panicked
        /\ op.ret = None
        /\ data = op.pdata
        /\ height = op.pheight

(***************************************************************************)
(* C16: for pos < len, remove_index(pos) returns the element that was      *)
(* stored at flat position pos, removes exactly that occurrence from the   *)
(* multiset (len decreases by 1), and leaves a beap that satisfies the     *)
(* ordering and height invariants.                                         *)
(***************************************************************************)
RemoveIndexContract(pd, pos, ret, d, h) ==
    /\ ret = Some(At(pd, pos))
    /\ Len(d) = Len(pd) - 1
    /\ SameBag(d, RemoveOne(pd, At(pd, pos)))
    /\ ValidBeap(d, h)

C16_RemoveIndexInRange ==
    (op.name = "remove_index" /\ op.x < Len(op.pdata)) =>
        ~panicked /\ RemoveIndexContract(op.pdata, op.x, op.ret, data, height)

(* C16 restricted to calls on a beap that satisfies the invariants. *)
C16_RemoveIndexOnValidBeap ==
    (op.name = "remove_index" /\ op.x < Len(op.pdata) /\ ValidBeap(op.pdata, op.pheight)) =>
        ~panicked /\ RemoveIndexContract(op.pdata, op.x, op.ret, data, height)

(***************************************************************************)
(* The handles' contracts.  At a Drop, op.pdata is the data as written     *)
(* through the handle and handle.data0 the data the handle was taken on.   *)
(***************************************************************************)
DroppedWritten(kind) == op.name = "drop" /\ handle.kind = kind /\ handle.sift

(* d is old with one occurrence of `was` replaced by v. *)
OneReplaced(d, old, was, v) == SameBag(d, Append(RemoveOne(old, was), v))

(***************************************************************************)
(* C17: peek_mut() is None iff the beap is empty; when the returned handle *)
(* is used to overwrite the maximum with any value v and is then released, *)
(* the beap holds the old multiset with one occurrence of the old maximum  *)
(* replaced by v, the ordering invariant holds, and peek() returns the new *)
(* maximum (what a reference heap's peek_mut yields).                      *)
(***************************************************************************)
PeekMutContract ==
    /\ op.name = "peek_mut" =>
          /\ (op.ret = None) <=> (op.pdata = << >>)
          /\ handle.live <=> (op.pdata # << >>)
          /\ handle.live => op.ret = Some(MaxOf(Elems(op.pdata)))
    /\ DroppedWritten("PeekMut") =>
          /\ OneReplaced(data, handle.data0, MaxOf(Elems(handle.data0)), At(op.pdata, 0))
          /\ Ordered(data)
          /\ peek(data) = Some(MaxOf(Elems(data)))

C17_PeekMutWrite == ~panicked => PeekMutContract

(* C17 restricted to handles taken on a beap that satisfies the invariants. *)
C17_PeekMutOnValidBeap ==
    (~panicked /\ ValidBeap(IF handle.live \/ op.name = "drop" THEN handle.data0 ELSE op.pdata,
                            op.pheight)) => PeekMutContract

(***************************************************************************)
(* C18: tail_mut() is None iff the beap is empty and otherwise refers to a *)
(* minimum element; after overwriting it with any value v and releasing    *)
(* the handle, the multiset is the old one with that minimum replaced by   *)
(* v, the ordering invariant holds, and tail() returns the new minimum.    *)
(***************************************************************************)
TailMutContract ==
    /\ op.name = "tail_mut" =>
          /\ (op.ret = None) <=> (op.pdata = << >>)
          /\ handle.live <=> (op.pdata # << >>)
          /\ handle.live =>
                /\ op.ret = Some(MinOf(Elems(op.pdata)))
                /\ At(data, handle.pos) = MinOf(Elems(op.pdata))
    /\ DroppedWritten("TailMut") =>
          /\ OneReplaced(data, handle.data0, MinOf(Elems(handle.data0)),
                         At(op.pdata, handle.pos))
          /\ Ordered(data)
          /\ \A overflow_checks \in Builds(data, height) :
                tail(data, height, overflow_checks) = Some(MinOf(Elems(data)))

C18_TailMutWrite == ~panicked => TailMutContract

(* C18 restricted to handles taken on a beap that satisfies the invariants. *)
C18_TailMutOnValidBeap ==
    ValidBeap(IF handle.live \/ op.name = "drop" THEN handle.data0 ELSE op.pdata,
              op.pheight) => (~panicked /\ TailMutContract)

(***************************************************************************)
(* C19: get_mut(pos) is None iff pos >= len; otherwise the handle refers   *)
(* to data[pos], and after overwriting it with any value (larger or        *)
(* smaller) and releasing the handle the ordering invariant is restored by *)
(* repair(pos) and the multiset differs only in that one element (writing  *)
(* a value larger than the root makes it the new peek).                    *)
(***************************************************************************)
GetMutContract ==
    /\ op.name = "get_mut" =>
          /\ (op.ret = None) <=> (op.x >= Len(op.pdata))
          /\ handle.live <=> (op.x < Len(op.pdata))
          /\ handle.live => handle.pos = op.x /\ op.ret = Some(At(op.pdata, op.x))
    /\ DroppedWritten("PosMut") =>
          /\ OneReplaced(data, handle.data0, At(handle.data0, handle.pos),
                         At(op.pdata, handle.pos))
          /\ Ordered(data)
          /\ At(op.pdata, handle.pos) > At(handle.data0, 0) =>
                peek(data) = Some(At(op.pdata, handle.pos))

C19_GetMutWrite == ~panicked => GetMutContract

(* C19 restricted to handles taken on a beap that satisfies the invariants. *)
C19_GetMutOnValidBeap ==
    (~panicked /\ ValidBeap(IF handle.live \/ op.name = "drop" THEN handle.data0 ELSE op.pdata,
                            op.pheight)) => GetMutContract

(***************************************************************************)
(* C20: a PeekMut / TailMut / PosMut handle that is released without any   *)
(* mutable access leaves data and height exactly unchanged and runs no     *)
(* repair; a handle that was mutably accessed triggers exactly one repair, *)
(* and only at its release (until then data differs from the data the      *)
(* handle was taken on at most at the handle's position).                  *)
(***************************************************************************)
OnlyAtPos(d, d0, pos) ==
    Len(d) = Len(d0) /\ \A i \in 0..(Len(d) - 1) : i # pos => At(d, i) = At(d0, i)

C20_RepairOnlyIfWritten ==
    /\ handle.live =>
          /\ handle.repairs = 0
          /\ OnlyAtPos(data, handle.data0, handle.pos)
          /\ ~handle.sift => data = handle.data0
          /\ op.name \in {"deref", "deref_mut"} => height = op.pheight
    /\ op.name = "drop" =>
          /\ ~handle.live
          /\ height = op.pheight
          /\ ~handle.sift => data = handle.data0 /\ handle.repairs = 0
          /\ handle.sift => handle.repairs = 1

(* A written TailMut whose release moved the element. *)
C20_Witness ==
    /\ op.name = "drop"
    /\ handle.kind = "TailMut"
    /\ handle.sift
    /\ handle.repairs = 1
    /\ data # op.pdata
    /\ Len(data) = 5

(* A PeekMut that was only read. *)
C20_WitnessUntouched ==
    /\ op.name = "drop"
    /\ handle.kind = "PeekMut"
    /\ ~handle.sift
    /\ handle.repairs = 0
    /\ Len(data) = 5

(***************************************************************************)
(* C21: PeekMut::pop(handle) removes and returns the root element, with    *)
(* the same result and resulting state as pop(), and TailMut::pop(handle)  *)
(* removes and returns the element the handle refers to, the same as       *)
(* pop_tail(); no further sift runs when the consumed handle is dropped,   *)
(* and the ordering and height invariants hold afterwards.  (A TailMut     *)
(* that was written through may no longer refer to a minimum: it is then   *)
(* compared with pop_tail only in what it removes, the element it refers   *)
(* to.)                                                                    *)
(***************************************************************************)
SameAsCall(r) == ~r.panic => (data = r.data /\ height = r.height /\ op.ret = r.ret)

ConsumeContract ==
    /\ op.name = "PeekMut::pop" =>
          /\ op.ret = Some(At(op.pdata, 0))
          /\ SameBag(op.pdata, Append(data, At(op.pdata, 0)))
          /\ SameAsCall(pop(op.pdata, op.pheight))
          /\ ~handle.live
          /\ handle.repairs = 0
          /\ ValidBeap(data, height)
    /\ op.name = "TailMut::pop" =>
          /\ op.ret = Some(At(op.pdata, handle.pos))
          /\ SameBag(op.pdata, Append(data, At(op.pdata, handle.pos)))
          /\ op.pdata = handle.data0 =>
                \A overflow_checks \in Builds(op.pdata, op.pheight) :
                    SameAsCall(pop_tail(op.pdata, op.pheight, overflow_checks))
          /\ ~handle.live
          /\ handle.repairs = 0
          /\ ValidBeap(data, height)

C21_ConsumingPop == ~panicked => ConsumeContract

(* C21 restricted to handles taken on a beap that satisfies the invariants. *)
C21_ConsumingPopOnValidBeap ==
    ValidBeap(IF handle.kind = "none" THEN op.pdata ELSE handle.data0, op.pheight)
        => (~panicked /\ ConsumeContract)

(* A written TailMut, consumed: the element written is the one returned. *)
C21_Witness ==
    /\ op.name = "TailMut::pop"
    /\ op.pdata # handle.data0
    /\ op.ret = Some(MaxVal)
    /\ Len(data) = 4

(* An unwritten PeekMut, consumed on a beap of six. *)
C21_WitnessPeekMut ==
    /\ op.name = "PeekMut::pop"
    /\ op.pdata = handle.data0
    /\ Len(data) = 5
    /\ data # Front(op.pdata)

(***************************************************************************)
(* C22: drain() empties the beap immediately: height is 0 from the call on *)
(* and, once the returned iterator is dropped (fully, partially or not at  *)
(* all consumed), len is 0; a fully consumed drain yields each stored      *)
(* element exactly once.  clear() leaves len 0 and height 0, and           *)
(* subsequent pushes behave exactly as on a new beap.                      *)
(***************************************************************************)
DrainContract ==
    /\ op.name = "drain" => drain.active /\ drain.data0 = op.pdata /\ drain.yielded = << >>
    /\ drain.active =>
          /\ height = 0
          /\ data = << >>
          /\ SameBag(drain.data0, drain.yielded \o drain.items)
    /\ (op.name \in {"drain_next", "drain_next_back"} /\ op.ret = None) =>
          SameBag(drain.yielded, drain.data0)
    /\ op.name = "drain_drop" => ~drain.active /\ Len(data) = 0 /\ height = 0
    /\ op.name = "clear" => Len(data) = 0 /\ height = 0
    /\ data = << >> =>
          /\ height = 0
          /\ \A x \in Vals : push(data, height, x) = push(<< >>, 0, x)
    /\ (op.name = "push" /\ op.pdata = << >>) => data = <<op.x>> /\ height = 1

C22_DrainAndClear == ~panicked /\ DrainContract

(* A drain of five elements, consumed from both ends to its end. *)
C22_Witness ==
    /\ op.name = "drain_next"
    /\ op.ret = None
    /\ Len(drain.yielded) = 5
    /\ drain.yielded # drain.data0
    /\ Head(drain.yielded) # Last(drain.yielded)

(* A drain dropped after it yielded two elements. *)
C22_WitnessPartial ==
    /\ op.name = "drain_drop"
    /\ op.x = 2
    /\ Len(op.pdata) = 0

(* A push onto a cleared beap. *)
C22_WitnessClear ==
    /\ op.name = "push"
    /\ op.pdata = << >>
    /\ op.x = MaxVal

(***************************************************************************)
(* C23: restricted to sequences that never call append or append_vec:      *)
(* starting from Beap::new() or Beap::from, after every push, pop,         *)
(* pop_tail, pushpop, remove, in-range remove_index, replace and handle    *)
(* release, every element is <= each of its parents in the triangular      *)
(* layout.  (Between a write through a handle and the handle's release the *)
(* beap is borrowed and no operation has completed.)                       *)
(***************************************************************************)
C23_OrderedWithoutAppend ==
    /\ ~panicked
    /\ (handle.live /\ handle.sift) \/ Ordered(data)

(* A root overwritten with the minimum and sifted to the last block at the *)
(* handle's release.                                                       *)
C23_Witness ==
    /\ op.name = "drop"
    /\ handle.kind = "PeekMut"
    /\ Len(data) = 6
    /\ At(op.pdata, 0) < At(op.pdata, 5)
    /\ At(data, 0) > At(op.pdata, 0)
    /\ Ordered(data)

(* An in-range remove_index whose repair moved the last element up. *)
C23_WitnessRemoveIndex ==
    /\ op.name = "remove_index"
    /\ op.x = 3
    /\ Len(op.pdata) = 6
    /\ At(data, 1) = At(op.pdata, 5)
    /\ At(op.pdata, 1) < At(op.pdata, 5)

(***************************************************************************)
(* C24: restricted to sequences that never call append or append_vec:      *)
(* height always equals the number of the block containing index len-1 (0  *)
(* when empty); push raises it by exactly 1 iff the last block was full or *)
(* the beap was empty, and pop / pop_tail / remove / remove_index lower it *)
(* by exactly 1 iff the vacated last slot was the first slot of the last   *)
(* block.                                                                  *)
(***************************************************************************)
(* Index i is the first slot of its block. *)
FirstOfBlock(i) == i = 0 \/ BlockOf(i) # BlockOf(i - 1)

C24_HeightWithoutAppend ==
    /\ ~panicked
    /\ height = (IF Len(data) = 0 THEN 0 ELSE BlockOf(Len(data) - 1))
    /\ op.name = "push" =>
          height = op.pheight + (IF FirstOfBlock(Len(op.pdata)) THEN 1 ELSE 0)
    /\ op.name \in {"pop", "pop_tail", "remove", "remove_index",
                    "PeekMut::pop", "TailMut::pop"} =>
          IF Len(data) = Len(op.pdata) THEN height = op.pheight
          ELSE /\ Len(data) = Len(op.pdata) - 1
               /\ height = op.pheight - (IF FirstOfBlock(Len(data)) THEN 1 ELSE 0)
    /\ op.name \in {"pushpop", "replace", "peek_mut", "tail_mut", "get_mut",
                    "deref_mut", "drop"} =>
          height = op.pheight /\ Len(data) = Len(op.pdata)

(* A pop_tail that vacated index 3, the first slot of block 3. *)
C24_Witness ==
    /\ op.name = "pop_tail"
    /\ Len(op.pdata) = 4
    /\ op.pheight = 3
    /\ height = 2

(* A push that opened block 3. *)
C24_WitnessPush ==
    /\ op.name = "push"
    /\ Len(op.pdata) = 3
    /\ op.pheight = 2
    /\ height = 3

(* A remove inside block 3 that left the height alone. *)
C24_WitnessKept ==
    /\ op.name = "remove"
    /\ op.ret = True
    /\ Len(data) = 4
    /\ height = 3
    /\ op.pheight = 3

(***************************************************************************)
(* C25: for every beap satisfying the ordering and height invariants and   *)
(* every value val, index(val) only reads positions < len, only calls span *)
(* on blocks in 1..=height, and never decrements pos below 0 (no           *)
(* out-of-bounds access, no unwrap of None, no underflow); any result      *)
(* Some(i) satisfies i < len and data[i] == val.                           *)
(***************************************************************************)
IndexSafe(d, h, val) ==
    LET w == index_walk(d, h, val)
        r == index(d, h, val)
    IN  /\ \A k \in 1..Len(w) :
              /\ w[k].kind \in {"move", "found", "none"}
              /\ 0 <= w[k].pos
              /\ w[k].pos < Len(d)
              /\ 1 <= w[k].block
              /\ w[k].block <= h
              /\ SpanStart(w[k].block) <= w[k].pos
              /\ w[k].pos <= SpanEnd(w[k].block)
        /\ r = WalkResult(w)
        /\ r # Panic
        /\ r # None => r[1] < Len(d) /\ At(d, r[1]) = val

C25_IndexInBounds ==
    /\ ~panicked
    /\ ValidBeap(data, height)
    /\ \A val \in Vals : IndexSafe(data, height, val)
    /\ op.name = "index" => op.ret = index(op.pdata, op.pheight, op.x)

(* A search that went down a column, then left, and found its value. *)
C25_Witness ==
    /\ op.name = "index"
    /\ Len(data) = 6
    /\ op.ret = Some(3)
    /\ Len(index_walk(data, height, op.x)) >= 3

(* A search for an absent value that ended inside the beap. *)
C25_WitnessAbsent ==
    /\ op.name = "index"
    /\ Len(data) = 5
    /\ op.ret = None
    /\ Len(index_walk(data, height, op.x)) >= 3

(***************************************************************************)
(* C26: index(val) terminates on every beap satisfying the invariants:     *)
(* each loop iteration moves to a strictly smaller column or a strictly    *)
(* larger row of the matrix view, so the walk visits at most 2*height      *)
(* positions before returning.                                             *)
(***************************************************************************)
(* The matrix view: block b is the b-th anti-diagonal, read from the       *)
(* bottom-left (column 0) to the top-right (row 0).                        *)
Column(w) == w.pos - SpanStart(w.block)
Row(w) == w.block - 1 - Column(w)

IndexTerminates(d, h, val) ==
    LET w == index_walk(d, h, val)
    IN  /\ w # << >> => Last(w).kind \in {"found", "none"}
        /\ Len(w) <= 2 * h
        /\ \A k \in 1..(Len(w) - 1) :
              \/ Column(w[k + 1]) < Column(w[k])
              \/ Row(w[k + 1]) > Row(w[k])

C26_IndexTerminates ==
    ValidBeap(data, height) /\ \A val \in Vals : IndexTerminates(data, height, val)

(* A walk of five positions on a beap of height 3. *)
C26_Witness ==
    /\ op.name = "index"
    /\ height = 3
    /\ Len(index_walk(data, height, op.x)) = 5

(***************************************************************************)
(* The sifts' hypotheses.  Children(pos) are the indices pos is a parent   *)
(* of.                                                                     *)
(***************************************************************************)
Children(d, pos) == {i \in 0..(Len(d) - 1) : pos \in Parents(i)}

(* Ordered everywhere, except that the element at pos may be larger than   *)
(* its parents.                                                            *)
OrderedButAbove(d, pos) ==
    \A i \in 0..(Len(d) - 1) : \A j \in Parents(i) : i # pos => At(d, i) <= At(d, j)

(* Ordered everywhere, except that the element at pos may be smaller than  *)
(* its children.                                                           *)
OrderedButBelow(d, pos) ==
    \A i \in 0..(Len(d) - 1) : \A j \in Parents(i) : j # pos => At(d, i) <= At(d, j)

(* Every child of pos is <= each parent of pos: the beap is ordered once   *)
(* the element at pos is given a value between them.                       *)
AroundOrdered(d, pos) ==
    \A i \in Children(d, pos) : \A j \in Parents(pos) : At(d, i) <= At(d, j)

LargerChild(d, pos) ==
    LET first == SpanStart(BlockOf(pos) + 1) + (pos - SpanStart(BlockOf(pos)))
        chosen == SiftdownChild(d, pos, SpanStart(BlockOf(pos)), BlockOf(pos))
    IN  first < Len(d) =>
            /\ Children(d, pos) = {first, first + 1} \cap (0..(Len(d) - 1))
            /\ chosen \in Children(d, pos)
            /\ \A c \in Children(d, pos) : At(d, c) <= At(d, chosen)
            /\ (chosen = first + 1) <=> (first + 1 < Len(d) /\ At(d, first + 1) > At(d, first))

SiftdownSteps ==
    /\ op.name = "any" => \A pos \in 0..(Len(data) - 1) : LargerChild(data, pos)
    /\ op.name = "siftdown" =>
          /\ SameBag(data, op.pdata)
          /\ height = op.pheight
          /\ Children(op.pdata, op.x) = {} => data = op.pdata
          /\ Children(op.pdata, op.x) # {} =>
                LET chosen == SiftdownChild(op.pdata, op.x, SpanStart(op.y), op.y)
                IN  IF At(op.pdata, op.x) >= At(op.pdata, chosen)
                    THEN data = op.pdata
                    ELSE At(data, op.x) = At(op.pdata, chosen)

SiftupTarget(d, pos) ==
    LET block == BlockOf(pos)
        offset == pos - SpanStart(block)
        left == SpanStart(block - 1) + offset - 1
        right == SpanStart(block - 1) + offset
        parent == SiftupParent(d, pos, SpanStart(block), block)
    IN  /\ parent \in Parents(pos)
        /\ SpanStart(block - 1) <= parent
        /\ parent <= SpanEnd(block - 1)
        /\ offset = 0 => parent = SpanStart(block - 1) /\ Parents(pos) = {parent}
        /\ offset = block - 1 => parent = SpanEnd(block - 1) /\ Parents(pos) = {parent}
        /\ (offset # 0 /\ offset # block - 1) =>
              /\ Parents(pos) = {left, right}
              /\ \A j \in Parents(pos) : At(d, parent) <= At(d, j)
              /\ At(d, left) = At(d, right) => parent = left

C29_SiftupTarget ==
    /\ op.name = "any" => \A pos \in 1..(Len(data) - 1) : SiftupTarget(data, pos)
    /\ (op.name = "siftup" /\ op.x > 0) =>
          LET parent == SiftupParent(op.pdata, op.x, SpanStart(op.y), op.y)
          IN  IF At(op.pdata, parent) >= At(op.pdata, op.x)
              THEN data = op.pdata
              ELSE At(data, op.x) = At(op.pdata, parent)

(* A step from the middle of block 3 whose parents differ: the element     *)
(* went to the right one, the smaller.                                     *)
C29_Witness ==
    /\ op.name = "siftup"
    /\ op.x = 4
    /\ At(op.pdata, 2) < At(op.pdata, 1)
    /\ At(op.pdata, 4) > At(op.pdata, 2)
    /\ At(data, 4) = At(op.pdata, 2)

(* A step from the middle of block 3 whose parents are equal: the element  *)
(* went to the left one.                                                   *)
C29_WitnessTie ==
    /\ op.name = "siftup"
    /\ op.x = 4
    /\ At(op.pdata, 2) = At(op.pdata, 1)
    /\ At(op.pdata, 4) > At(op.pdata, 1)
    /\ At(op.pdata, 0) >= At(op.pdata, 4)
    /\ data = Swap(op.pdata, 4, 1)

(***************************************************************************)
(* C30: pushpop never changes len or height; if the beap is empty or       *)
(* item >= the current maximum it returns item and leaves data exactly     *)
(* unchanged; otherwise it returns the old root and the beap holds the old *)
(* multiset with that one maximum replaced by item, with the ordering      *)
(* invariant restored.                                                     *)
(***************************************************************************)
PushPopFrame(pd, ph, item, ret, d, h) ==
    /\ Len(d) = Len(pd)
    /\ h = ph
    /\ IF pd = << >> \/ item >= MaxOf(Elems(pd))
       THEN ret = Some(item) /\ d = pd
       ELSE /\ ret = Some(At(pd, 0))
            /\ OneReplaced(d, pd, MaxOf(Elems(pd)), item)
            /\ Ordered(d)

C30_PushPopFrame ==
    (~panicked /\ op.name = "pushpop") =>
        PushPopFrame(op.pdata, op.pheight, op.x, op.ret, data, height)

(* C30 restricted to calls on a beap that satisfies the invariants. *)
C30_PushPopOnValidBeap ==
    (op.name = "pushpop" /\ ValidBeap(op.pdata, op.pheight)) =>
        (~panicked /\ PushPopFrame(op.pdata, op.pheight, op.x, op.ret, data, height))

(* A pushpop below the maximum whose item sank two blocks. *)
C30_Witness ==
    /\ op.name = "pushpop"
    /\ ValidBeap(op.pdata, op.pheight)
    /\ Len(data) = 6
    /\ op.ret = Some(MaxVal)
    /\ op.x = 0
    /\ At(data, 0) # 0
    /\ At(data, 1) # 0
    /\ At(data, 2) # 0

(***************************************************************************)
(* A beap built in bulk, then changed in place through get_mut and         *)
(* tail_mut handles, whose Drop repairs the position written.              *)
(***************************************************************************)
NextRepair ==
    \/ GetMutCall
    \/ TailMutCall
    \/ HandleDerefMut
    \/ DropPosMut
    \/ DropTailMut

SpecRepair == Init /\ [][NextRepair]_vars

(* b(b-1)/2 < n <= b(b+1)/2: the n-th element lies in block b. *)
HoldsNth(b, n) == (b * (b - 1)) \div 2 < n /\ n <= (b * (b + 1)) \div 2

(* A handle that was written through has been dropped at a position        *)
(* other than the root: repair took its second branch.                     *)
Repaired ==
    /\ op.name = "drop"
    /\ handle.kind \in {"PosMut", "TailMut"}
    /\ handle.sift
    /\ handle.pos > 0

(***************************************************************************)
(* C31: for every n >= 1 within the checked bound, round(sqrt(2n)) equals  *)
(* the unique block b with b(b-1)/2 < n <= b(b+1)/2; hence the height      *)
(* Beap::from computes for length n (0 for n = 0) and the block repair     *)
(* computes for position pos = n-1 are exactly the block containing the    *)
(* last / the given index.                                                 *)
(***************************************************************************)
C31_RoundSqrtIsBlock ==
    /\ op.name = "from" =>
          /\ \A n \in 1..(MaxLen * MaxLen) :
                /\ HoldsNth(RoundSqrt(2 * n), n)
                /\ \A b \in 0..(2 * n) : HoldsNth(b, n) => b = RoundSqrt(2 * n)
          /\ Len(data) = 0 => height = 0
          /\ Len(data) > 0 => height = BlockOf(Len(data) - 1)
    /\ Repaired =>
          LET b == BlockOf(handle.pos)
          IN  /\ HoldsNth(b, handle.pos + 1)
              /\ data = siftdown(siftup(op.pdata, handle.pos, b), height, handle.pos, b)

(* A written element at index 3, the first of block 3 (sqrt(8) = 2.83 is   *)
(* rounded up), that its repair moved to the root.                         *)
C31_Witness ==
    /\ Repaired
    /\ handle.kind = "PosMut"
    /\ handle.pos = 3
    /\ Len(data) = 4
    /\ At(data, 0) = At(op.pdata, 3)
    /\ At(data, 0) > At(op.pdata, 0)

(* Beap::from of four elements stored height 3. *)
C31_WitnessFrom ==
    /\ op.name = "from"
    /\ Len(data) = 4
    /\ height = 3

(***************************************************************************)
(* The two sifts of the repair a dropped handle ran, as sequences of       *)
(* swaps: siftup(pos, b) on the data as written, then siftdown(pos, b) on  *)
(* what siftup left.                                                       *)
(***************************************************************************)
RepairUp ==
    siftup_walk(op.pdata, handle.pos, RoundSqrt(2 * (handle.pos + 1)))

RepairDown ==
    siftdown_walk(siftup(op.pdata, handle.pos, RoundSqrt(2 * (handle.pos + 1))),
                  height, handle.pos, RoundSqrt(2 * (handle.pos + 1)))

(* d after the element at pos has made the swaps of w, one after another. *)
RECURSIVE Replay(_, _, _)
Replay(d, pos, w) ==
    IF w = << >> THEN d ELSE Replay(Swap(d, pos, w[1].pos), w[1].pos, Tail(w))

(* The dropped handle was taken on a valid beap, so that the data repair   *)
(* ran on is that beap but for the element at handle.pos.                  *)
RepairedOnValidBeap ==
    /\ Repaired
    /\ ValidBeap(handle.data0, height)
    /\ \A i \in 0..(Len(data) - 1) : i # handle.pos => At(op.pdata, i) = At(handle.data0, i)

(***************************************************************************)
(* C32, as claimed: in repair(pos) with pos > 0, run after an in-place     *)
(* change of data[pos] in an otherwise valid beap, exactly one of the      *)
(* siftup and siftdown calls performs actual work (swaps); the two never   *)
(* both move elements.                                                     *)
(***************************************************************************)
C32_RepairOneSift ==
    RepairedOnValidBeap =>
        /\ data = Replay(Replay(op.pdata, handle.pos, RepairUp), handle.pos, RepairDown)
        /\ (RepairUp # << >>) # (RepairDown # << >>)

(***************************************************************************)
(* C32, amended: in repair(pos) with pos > 0, run after an in-place change *)
(* of data[pos] in an otherwise valid beap, at most one of the siftup and  *)
(* siftdown calls performs actual work (swaps): siftup alone when the new  *)
(* value is larger than a parent of pos, siftdown alone when it is smaller *)
(* than a child of pos, and neither when it is in order where it is; the   *)
(* two never both move elements.                                           *)
(***************************************************************************)
C32_RepairAtMostOneSift ==
    RepairedOnValidBeap =>
        /\ data = Replay(Replay(op.pdata, handle.pos, RepairUp), handle.pos, RepairDown)
        /\ ~(RepairUp # << >> /\ RepairDown # << >>)
        /\ RepairUp # << >> <=>
              \E j \in Parents(handle.pos) : At(op.pdata, j) < At(op.pdata, handle.pos)
        /\ RepairDown # << >> <=>
              \E c \in Children(op.pdata, handle.pos) : At(op.pdata, c) > At(op.pdata, handle.pos)

(* A raised element that siftup alone moved, two blocks up to the root. *)
C32_Witness ==
    /\ RepairedOnValidBeap
    /\ handle.pos = 4
    /\ Len(RepairUp) = 2
    /\ RepairDown = << >>
    /\ At(data, 0) = At(op.pdata, 4)

(* A lowered element that siftdown alone moved. *)
C32_WitnessDown ==
    /\ RepairedOnValidBeap
    /\ handle.pos = 1
    /\ RepairUp = << >>
    /\ Len(RepairDown) = 1
    /\ data # op.pdata

(* A written element that is in order where it is: neither sift moved it. *)
C32_WitnessNeither ==
    /\ RepairedOnValidBeap
    /\ handle.pos = 1
    /\ Len(data) = 4
    /\ At(op.pdata, 1) # At(handle.data0, 1)
    /\ RepairUp = << >>
    /\ RepairDown = << >>
    /\ data = op.pdata

(***************************************************************************)
(* The swaps of the siftup / siftdown call just made, and the block the    *)
(* loop was in before its i-th swap.                                       *)
(***************************************************************************)
UpSwaps == siftup_walk(op.pdata, op.x, op.y)

DownSwaps == siftdown_walk(op.pdata, op.pheight, op.x, op.y)

BlockBefore(w, block, i) == IF i = 1 THEN block ELSE w[i - 1].block

(***************************************************************************)
(* C33: siftup(pos, block) performs at most block-1 swaps and              *)
(* siftdown(pos, block) at most height-block swaps, so both terminate:     *)
(* block strictly decreases (siftup) or strictly increases (siftdown) on   *)
(* every swap.                                                             *)
(***************************************************************************)
C33_SiftSwapBounds ==
    /\ op.name = "siftup" =>
          /\ data = Replay(op.pdata, op.x, UpSwaps)
          /\ Len(UpSwaps) <= op.y - 1
          /\ \A i \in 1..Len(UpSwaps) :
                /\ UpSwaps[i].block < BlockBefore(UpSwaps, op.y, i)
                /\ UpSwaps[i].block >= 1
    /\ op.name = "siftdown" =>
          /\ data = Replay(op.pdata, op.x, DownSwaps)
          /\ Len(DownSwaps) <= height - op.y
          /\ \A i \in 1..Len(DownSwaps) :
                /\ DownSwaps[i].block > BlockBefore(DownSwaps, op.y, i)
                /\ DownSwaps[i].block <= height

(* A siftup from block 3 that made both swaps its bound allows. *)
C33_Witness ==
    /\ op.name = "siftup"
    /\ op.y = 3
    /\ Len(UpSwaps) = 2
    /\ UpSwaps[2].pos = 0
    /\ data # op.pdata

(* A siftdown from the root of a beap of height 3 that made both swaps its *)
(* bound allows.                                                           *)
C33_WitnessDown ==
    /\ op.name = "siftdown"
    /\ op.y = 1
    /\ height = 3
    /\ Len(DownSwaps) = 2
    /\ data # op.pdata

(* A siftdown from the last block: no swap is allowed, and none is made. *)
C33_WitnessNone ==
    /\ op.name = "siftdown"
    /\ op.y = height
    /\ height = 3
    /\ DownSwaps = << >>
    /\ data = op.pdata

(***************************************************************************)
(* span(b), called on any bulk-built (or new) beap for any block up to one *)
(* past the largest a beap of MaxLen elements can reach by pushes; the     *)
(* pair returned is recorded in op.vec (empty for None).                   *)
(***************************************************************************)
SpanCall ==
    /\ Idle
    /\ \E b \in 0..(MaxLen + 1) :
        op' = [Call("span", b, NoArg, None, None)
                 EXCEPT !.vec = IF span(b) = None THEN << >> ELSE span(b)[1]]
    /\ handle' = NoHandle
    /\ UNCHANGED <<data, height, ref, drain, panicked, merged_from>>

NextSpan == SpanCall

SpecSpan == Init /\ [][NextSpan]_vars

(* The blocks among 1..n whose span holds the flat index i. *)
BlocksHolding(i, n) == {b \in 1..n : SpanStart(b) <= i /\ i <= SpanEnd(b)}

(***************************************************************************)
(* C34: span(0) is None and for b >= 1 span(b) = (b(b-1)/2, b(b+1)/2 - 1); *)
(* consecutive blocks tile the index space with no gap or overlap          *)
(* (span(1).start = 0 and span(b+1).start = span(b).end + 1) and block b   *)
(* contains exactly b positions.                                           *)
(***************************************************************************)
C34_SpanTiles ==
    op.name = "span" =>
        /\ op.x = 0 <=> op.vec = << >>
        /\ span(0) = None
        /\ SpanStart(1) = 0
        /\ op.x >= 1 =>
              /\ Len(op.vec) = 2
              /\ 2 * op.vec[1] = op.x * (op.x - 1)
              /\ 2 * (op.vec[2] + 1) = op.x * (op.x + 1)
              /\ SpanStart(op.x + 1) = op.vec[2] + 1
              /\ Cardinality(op.vec[1]..op.vec[2]) = op.x
              /\ \A i \in 0..op.vec[2] : Cardinality(BlocksHolding(i, op.x + 1)) = 1

(* span(3) returned (3, 5). *)
C34_Witness ==
    /\ op.name = "span"
    /\ op.x = 3
    /\ op.vec = <<3, 5>>

(* span(0) returned None. *)
C34_WitnessNone ==
    /\ op.name = "span"
    /\ op.x = 0
    /\ op.vec = << >>

(***************************************************************************)
(* The walk of the index call just made, and the block it starts in: the   *)
(* last block that is completely filled.                                   *)
(***************************************************************************)
SearchWalk == index_walk(op.pdata, op.pheight, op.x)

LastFullBlock(d) == CHOOSE b \in 1..Len(d) : SpanEnd(b) < Len(d) /\ SpanEnd(b + 1) >= Len(d)

(* The walk starts at the last element of the last completely filled block *)
(* and is what index returned from.                                        *)
SearchStart ==
    /\ SearchWalk # << >>
    /\ SearchWalk[1].block = LastFullBlock(op.pdata)
    /\ SearchWalk[1].pos = SpanEnd(LastFullBlock(op.pdata))
    /\ op.ret = WalkResult(SearchWalk)

(***************************************************************************)
(* C35, as claimed: index's walk starts at the last element of the last    *)
(* completely filled block and loops until pos reaches the bottom-left     *)
(* corner, flat index 0; the element at that corner is the last one        *)
(* compared for equality before the search reports not found.              *)
(***************************************************************************)
C35_IndexEndsAtZero ==
    (op.name = "index" /\ op.pdata # << >>) =>
        /\ SearchStart
        /\ \A k \in 1..(Len(SearchWalk) - 1) : SearchWalk[k].pos # 0
        /\ Last(SearchWalk).kind = "none" => Last(SearchWalk).pos = 0

(* The block index starts in, as it computes it from the stored height:   *)
(* block height, or the one before it when block height is not full.       *)
StartBlock == IF SpanEnd(op.pheight) >= Len(op.pdata) THEN op.pheight - 1 ELSE op.pheight

(***************************************************************************)
(* C35, amended: index's walk starts at the last element of the last       *)
(* completely filled block (block height, or block height-1 when block     *)
(* height is not full) and loops until pos reaches the bottom-left corner, *)
(* the first index of the last block (span(height).start, which is flat    *)
(* index 0 only when height is 1); the search reports not found either     *)
(* after the loop, the element at that corner being the last one compared  *)
(* for equality, or from inside the loop at the first index of an earlier  *)
(* block, whose element is smaller than the value searched for.            *)
(***************************************************************************)
C35_IndexEndsAtLeftLow ==
    (op.name = "index" /\ op.pdata # << >>) =>
        /\ SearchStart
        /\ SearchWalk[1].block = StartBlock
        /\ \A k \in 1..(Len(SearchWalk) - 1) : SearchWalk[k].pos # SpanStart(op.pheight)
        /\ Last(SearchWalk).kind = "none" =>
              \/ Last(SearchWalk).pos = SpanStart(op.pheight)
              \/ /\ Last(SearchWalk).block < op.pheight
                 /\ Last(SearchWalk).pos = SpanStart(Last(SearchWalk).block)
                 /\ At(op.pdata, Last(SearchWalk).pos) < op.x

(* A search on a beap of height 3 that walked to flat index 3, the first   *)
(* of the last block, compared it last and reported not found.             *)
C35_Witness ==
    /\ op.name = "index"
    /\ op.pheight = 3
    /\ op.ret = None
    /\ Len(SearchWalk) >= 3
    /\ Last(SearchWalk).pos = 3

(* A search that reported not found from inside the loop, at the first     *)
(* index of block 2.                                                       *)
C35_WitnessInLoop ==
    /\ op.name = "index"
    /\ op.pheight = 3
    /\ op.ret = None
    /\ Last(SearchWalk).pos = 1
    /\ Last(SearchWalk).block = 2

====
